---- MODULE Spec2Model ----
(***************************************************************************)
(* A model of the rcurves playground: the Mandelbrot set renderer          *)
(* (src/src/mandelbrot_curve.rs) with its view-box transform, escape-time  *)
(* iterator, parallel reduction, colour mapping and render cache, and the  *)
(* colour picker it embeds (src/src/color_picker.rs).                      *)
(*                                                                         *)
(* Numbers.  f64 plane coordinates are fixed-point integers with Scale     *)
(* units per 1.0; every f64 operation rounds its exact result to the       *)
(* nearest unit, as the hardware rounds to the nearest double.  The three  *)
(* non-finite doubles are the values NaN, Inf and NInf, and FAdd, FMul,    *)
(* FDiv, FEq and FLt follow IEEE 754 on them.  f32 screen coordinates are  *)
(* integers in half pixels (ScreenUnit units per pixel); the f32 values of  *)
(* the colour picker (hue in degrees, saturation, value, colour            *)
(* components, its placement on screen) and the stored iteration counts    *)
(* are fixed-point with Scale units per 1.0 as well.                       *)
(***************************************************************************)
EXTENDS Integers, Sequences, FiniteSets, TLC

\* ------------------------------------------------------------------------
\* Bounds of the model
\* ------------------------------------------------------------------------
\* input events (key, wheel, mouse, side-panel) delivered since construction
MaxEvents == 3
\* frame widths and heights offered by the host, in pixels
MaxWidth == 3
MaxHeight == 2
\* the dwell "+" button is pressed only while the result stays <= MaxDwell
MaxDwell == 200
\* reduction algebra: add / combine steps taken on the three partial results
MaxSteps == 3
\* reduction algebra: max_iterations of the iterator, the histogram length
CombineLen == 2
\* parallel pass: fold segments alive at the same time
MaxWorkers == 3
\* presets selectable in the "Depart" combo box: 0..MaxPreset
MaxPreset == 1
\* navigation alone: zoom, reset and resize events delivered
MaxNavEvents == 27
\* iterator alone: the sampled plane points are the multiples of 1/32 with
\* |y| <= MaxGrid / 32 and -2 * MaxGrid / 32 <= x <= (MaxGrid - 8) / 32
MaxGrid == 24
\* dwell alone: clicks on the dwell buttons and resets
MaxDwellEvents == 8
\* colour colorpick alone: events delivered to it
MaxPickerEvents == 3
\* gamepad alone: button and axis events delivered to a curve
MaxPadEvents == 4

\* ------------------------------------------------------------------------
\* Number representation
\* ------------------------------------------------------------------------
Scale == 2 ^ 10
ScreenUnit == 2

Inf == 2 ^ 30
NInf == 0 - Inf
NaN == Inf + 1

Abs(a) == IF a < 0 THEN 0 - a ELSE a
Sign(a) == IF a < 0 THEN 0 - 1 ELSE IF a > 0 THEN 1 ELSE 0
Min2(a, b) == IF b < a THEN b ELSE a
Max2(a, b) == IF b > a THEN b ELSE a

\* n / d rounded to the nearest integer, ties away from zero (d > 0)
RoundDiv(n, d) == Sign(n) * ((2 * Abs(n) + d) \div (2 * d))

\* the decimal literal n/d as an f64
Dec(n, d) ==
    Sign(n) * ((Abs(n) \div d) * Scale + RoundDiv((Abs(n) % d) * Scale, d))

IsFin(a) == a > NInf /\ a < Inf

\* a * b / Scale for finite a, b, rounded to nearest; the product is split
\* so that no intermediate value leaves the 32-bit range
MulFin(a, b) ==
    LET hi == Abs(a) \div Scale
        lo == Abs(a) % Scale
    IN  Sign(a) * Sign(b) * (hi * Abs(b) + RoundDiv(lo * Abs(b), Scale))

FNeg(a) == IF a = NaN THEN NaN ELSE 0 - a

FAdd(a, b) ==
    IF a = NaN \/ b = NaN THEN NaN
    ELSE IF IsFin(a) /\ IsFin(b) THEN a + b
    ELSE IF IsFin(a) THEN b
    ELSE IF IsFin(b) THEN a
    ELSE IF a = b THEN a ELSE NaN

FSub(a, b) == FAdd(a, FNeg(b))

FMul(a, b) ==
    IF a = NaN \/ b = NaN THEN NaN
    ELSE IF IsFin(a) /\ IsFin(b) THEN MulFin(a, b)
    ELSE IF a = 0 \/ b = 0 THEN NaN
    ELSE Sign(a) * Sign(b) * Inf

FDiv(a, b) ==
    IF a = NaN \/ b = NaN THEN NaN
    ELSE IF IsFin(a) /\ IsFin(b)
         THEN IF b = 0 THEN (IF a = 0 THEN NaN ELSE Sign(a) * Inf)
              ELSE Sign(b) * RoundDiv(a * Scale, Abs(b))
    ELSE IF IsFin(b) THEN (IF b < 0 THEN 0 - a ELSE a)
    ELSE IF IsFin(a) THEN 0
    ELSE NaN

\* ==, != and < of f64: every comparison with a NaN is false, != is true
FEq(a, b) == a # NaN /\ b # NaN /\ a = b
FNe(a, b) == ~FEq(a, b)
FLt(a, b) == a # NaN /\ b # NaN /\ a < b

\* DVec2 / Vec2 values and their ==, !=
Vec(x, y) == [x |-> x, y |-> y]
VecNe(p, q) == FNe(p.x, q.x) \/ FNe(p.y, q.y)

\* f32 screen value (half pixels) -> f64
F64OfScreen(s) == (s * Scale) \div ScreenUnit
\* i32 pixel -> f64, and i32 pixel -> f32
F64OfInt(n) == n * Scale
ScreenOfInt(n) == n * ScreenUnit
\* f32::round (ties away from zero) followed by `as i32`
RoundToInt(s) == RoundDiv(s, ScreenUnit)

\* ------------------------------------------------------------------------
\* Constants of mandelbrot_curve.rs
\* ------------------------------------------------------------------------
MAX_ITERATIONS_PARAM == 0
OUT_COLOR_PARAM == 1
ALMOST_IN_COLOR_PARAM == 2
ZOOM_STEP_PCT == Dec(25, 100)
DEFAULT_BOX_LEFT_X == Dec(0 - 2, 1)
DEFAULT_BOX_RIGHT_X == Dec(5, 10)
DEFAULT_SPAN == DEFAULT_BOX_RIGHT_X - DEFAULT_BOX_LEFT_X
DEFAULT_MAX_ITERATIONS == 100
ESCAPE_RADIUS == Dec(2, 1)
INCREASE_MAX_PERIODICITY_AFTER_CYCLES == 10

KnownCircleNew(center, radius2, x_limit) ==
    [center |-> center, radius2 |-> radius2, x_limit |-> x_limit]

KNOW_CIRCLES ==
    << KnownCircleNew(Vec(Dec(0 - 125, 1000), Dec(744, 1000)),
                      MulFin(Dec(92, 1000), Dec(92, 1000)), Dec(2, 1)),
       KnownCircleNew(Vec(Dec(0 - 125, 1000), Dec(0 - 744, 1000)),
                      MulFin(Dec(92, 1000), Dec(92, 1000)), Dec(2, 1)),
       KnownCircleNew(Vec(Dec(0 - 1308, 1000), 0),
                      MulFin(Dec(58, 1000), Dec(58, 1000)), Dec(2, 1)) >>

\* the coordinates of REMARKABLE_POINTS (the names are display text)
REMARKABLE_POINTS ==
    << Vec(DEFAULT_BOX_LEFT_X + DEFAULT_SPAN \div 2, 0),
       Vec(Dec(0 - 1401155, 1000000), 0),
       Vec(Dec(0 - 743644, 1000000), Dec(131826, 1000000)),
       Vec(Dec(0 - 1749214, 1000000), Dec(0 - 289, 1000000)),
       Vec(Dec(0 - 164920, 1000000), Dec(0 - 1036915, 1000000)),
       Vec(Dec(0 - 1483869, 1000000), 0),
       Vec(Dec(362119, 1000000), Dec(0 - 426101, 1000000)) >>

\* ------------------------------------------------------------------------
\* ViewBox
\* ------------------------------------------------------------------------
\* ViewBox::from_center_size; screen_center and screen_size are f32 vectors
ViewBoxFromCenterSize(screen_center, screen_size, box_center, box_size) ==
    LET screen_size_i == Vec(RoundToInt(screen_size.x), RoundToInt(screen_size.y))
    IN  [ screen_min_i |->
              Vec(RoundToInt(screen_center.x - screen_size.x \div 2),
                  RoundToInt(screen_center.y - screen_size.y \div 2)),
          screen_center |-> screen_center,
          screen_size_i |-> screen_size_i,
          box_center |-> box_center,
          box_size |-> box_size,
          box_screen_ratio |-> FDiv(box_size.x, F64OfScreen(screen_size.x)),
          pixel_count |-> screen_size_i.x * screen_size_i.y ]

ViewBoxZero == ViewBoxFromCenterSize(Vec(0, 0), Vec(0, 0), Vec(0, 0), Vec(0, 0))

\* ViewBox::mandel_point
MandelPoint(vb, screen_pixel_x, screen_pixel_y) ==
    Vec(FAdd(FMul(FSub(F64OfInt(screen_pixel_x), F64OfScreen(vb.screen_center.x)),
                  vb.box_screen_ratio), vb.box_center.x),
        FAdd(FMul(FSub(F64OfInt(screen_pixel_y), F64OfScreen(vb.screen_center.y)),
                  vb.box_screen_ratio), vb.box_center.y))

\* ViewBox::mandel_point_from_index (pixel_index is 0-based)
MandelPointFromIndex(vb, pixel_index) ==
    LET screen_shift_x == pixel_index % vb.screen_size_i.x
        screen_shift_y == pixel_index \div vb.screen_size_i.x
    IN  MandelPoint(vb, vb.screen_min_i.x + screen_shift_x,
                        vb.screen_min_i.y + screen_shift_y)

\* screen_pixel without the shift to the screen centre: the fault C16 is
\* tested against
ScreenPixelNoCenter(vb, mandel_point) ==
    Vec(FDiv(FSub(mandel_point.x, vb.box_center.x), vb.box_screen_ratio),
        FDiv(FSub(mandel_point.y, vb.box_center.y), vb.box_screen_ratio))

\* ViewBox::screen_pixel.  The f32 result is kept in units of 1 / Scale of
\* a pixel, which is coarser than f32 for every coordinate of a window.
ScreenPixel(vb, mandel_point) ==
    Vec(FAdd(FDiv(FSub(mandel_point.x, vb.box_center.x), vb.box_screen_ratio),
             F64OfScreen(vb.screen_center.x)),
        FAdd(FDiv(FSub(mandel_point.y, vb.box_center.y), vb.box_screen_ratio),
             F64OfScreen(vb.screen_center.y)))

\* size_changed looking at the height alone: the fault C5 is tested against
SizeChangedHeightOnly(self, other) == self.screen_size_i.y # other.screen_size_i.y

\* ViewBox::size_changed
SizeChanged(self, other) == self.screen_size_i # other.screen_size_i

\* ------------------------------------------------------------------------
\* Known-region shortcuts and the escape-time iterator
\* ------------------------------------------------------------------------
\* KnownCircle::is_part
IsPart(circle, c) ==
    LET dx == FSub(c.x, circle.center.x)
        dy == FSub(c.y, circle.center.y)
    IN  FLt(FAdd(FMul(dx, dx), FMul(dy, dy)), circle.radius2) /\ FLt(c.x, circle.x_limit)

\* KnownCircle::is_known_member
IsKnownMember(c) == \E k \in 1..Len(KNOW_CIRCLES) : IsPart(KNOW_CIRCLES[k], c)

\* is_part_of_bulb_or_main_cardioid with the bulb test against the radius
\* 0.25 in place of its square: the fault C17 is tested against
IsPartOfWideBulbOrMainCardioid(c, y2) ==
    LET x_plus_1 == FAdd(c.x, Dec(1, 1))
        x_minus_quarter == FSub(c.x, Dec(25, 100))
        q == FAdd(FMul(x_minus_quarter, x_minus_quarter), y2)
    IN  \/ FLt(FAdd(FMul(x_plus_1, x_plus_1), y2), Dec(25, 100))
        \/ FLt(FMul(q, FAdd(q, x_minus_quarter)), FMul(y2, Dec(25, 100)))

\* MandelIterator::is_part_of_bulb_or_main_cardioid
IsPartOfBulbOrMainCardioid(c, y2) ==
    LET x_plus_1 == FAdd(c.x, Dec(1, 1))
        x_minus_quarter == FSub(c.x, Dec(25, 100))
        q == FAdd(FMul(x_minus_quarter, x_minus_quarter), y2)
    IN  \/ FLt(FAdd(FMul(x_plus_1, x_plus_1), y2), Dec(625, 10000))
        \/ FLt(FMul(q, FAdd(q, x_minus_quarter)), FMul(y2, Dec(25, 100)))

\* f64::abs(a - b) < EPSILON with EPSILON = 1e-17, that is d * 10^17 < Scale
\* for the difference d in units; a difference of one unit or more is never
\* below EPSILON, so d is capped at 1 and the factor at 10^9 > Scale
WithinEpsilon(a, b) == Min2(Abs(a - b), 1) * (10 ^ 9) < Scale

\* f64::log2 of v >= 1.0, by the digit-by-digit (repeated squaring) method
RECURSIVE Log2Int(_)
Log2Int(v) == IF v >= 2 * Scale THEN 1 + Log2Int(v \div 2) ELSE 0

RECURSIVE Log2Frac(_, _)
Log2Frac(m, bit) ==
    IF bit = 0 THEN 0
    ELSE LET m2 == MulFin(m, m)
         IN  IF m2 >= 2 * Scale THEN bit + Log2Frac(m2 \div 2, bit \div 2)
             ELSE Log2Frac(m2, bit \div 2)

Log2(v) ==
    LET n == Log2Int(v)
    IN  n * Scale + Log2Frac(v \div (2 ^ n), Scale \div 2)

IterationResultOf(iterations, smooth, computed) ==
    [iterations |-> iterations, smooth |-> smooth, computed |-> computed]

\* IterStep with a max_periodicity that never grows: the fault C22 is
\* tested against
IterStepNeverGrows(max_iterations, escape_radius2, c, s) ==
    IF s.i < max_iterations /\ (s.x2 + s.y2) < escape_radius2
    THEN LET x == s.x2 - s.y2 + c.x
             y == s.xy + s.xy + c.y
             refresh == s.since = s.max_periodicity
             grow == refresh /\ s.cycles = INCREASE_MAX_PERIODICITY_AFTER_CYCLES
         IN  IF WithinEpsilon(x, s.xh) /\ WithinEpsilon(y, s.yh)
             THEN [s EXCEPT !.result = <<IterationResultOf(max_iterations, 0, 0)>>]
             ELSE [ x |-> x, y |-> y,
                    x2 |-> MulFin(x, x), y2 |-> MulFin(y, y), xy |-> MulFin(x, y),
                    i |-> s.i + 1,
                    xh |-> IF refresh THEN x ELSE s.xh,
                    yh |-> IF refresh THEN y ELSE s.yh,
                    since |-> (IF refresh THEN 0 ELSE s.since) + 1,
                    max_periodicity |-> s.max_periodicity,
                    cycles |->
                        IF refresh THEN (IF grow THEN 0 ELSE s.cycles) + 1
                        ELSE s.cycles,
                    result |-> << >> ]
    ELSE IF s.i >= max_iterations
         THEN [s EXCEPT !.result = <<IterationResultOf(max_iterations, 0, s.i)>>]
         ELSE LET nu == Log2(Log2(s.x2 + s.y2) \div 2)
              IN  [s EXCEPT !.result =
                      <<IterationResultOf(s.i, Max2(0, Dec(1, 1) - nu), s.i)>>]

\* IterStep with the return from the cycle detection crediting the steps
\* taken, as the return after the loop does: the fault C21 is tested against
IterStepCreditsCycle(max_iterations, escape_radius2, c, s) ==
    IF s.i < max_iterations /\ (s.x2 + s.y2) < escape_radius2
    THEN LET x == s.x2 - s.y2 + c.x
             y == s.xy + s.xy + c.y
             refresh == s.since = s.max_periodicity
             grow == refresh /\ s.cycles = INCREASE_MAX_PERIODICITY_AFTER_CYCLES
         IN  IF WithinEpsilon(x, s.xh) /\ WithinEpsilon(y, s.yh)
             THEN [s EXCEPT !.result = <<IterationResultOf(max_iterations, 0, s.i + 1)>>]
             ELSE [ x |-> x, y |-> y,
                    x2 |-> MulFin(x, x), y2 |-> MulFin(y, y), xy |-> MulFin(x, y),
                    i |-> s.i + 1,
                    xh |-> IF refresh THEN x ELSE s.xh,
                    yh |-> IF refresh THEN y ELSE s.yh,
                    since |-> (IF refresh THEN 0 ELSE s.since) + 1,
                    max_periodicity |->
                        IF grow THEN s.max_periodicity * 2 ELSE s.max_periodicity,
                    cycles |->
                        IF refresh THEN (IF grow THEN 0 ELSE s.cycles) + 1
                        ELSE s.cycles,
                    result |-> << >> ]
    ELSE IF s.i >= max_iterations
         THEN [s EXCEPT !.result = <<IterationResultOf(max_iterations, 0, s.i)>>]
         ELSE LET nu == Log2(Log2(s.x2 + s.y2) \div 2)
              IN  [s EXCEPT !.result =
                      <<IterationResultOf(s.i, Max2(0, Dec(1, 1) - nu), s.i)>>]

\* One evaluation of the `while` condition of iter_to_divergence on the
\* loop's local variables s, followed by the loop body or, when the
\* condition is false, by the code after the loop.  s.result is << >> while
\* the function is running and holds the returned IterationResult after.
IterStep(max_iterations, escape_radius2, c, s) ==
    IF s.i < max_iterations /\ (s.x2 + s.y2) < escape_radius2
    THEN LET x == s.x2 - s.y2 + c.x
             y == s.xy + s.xy + c.y
             refresh == s.since = s.max_periodicity
             grow == refresh /\ s.cycles = INCREASE_MAX_PERIODICITY_AFTER_CYCLES
         IN  IF WithinEpsilon(x, s.xh) /\ WithinEpsilon(y, s.yh)
             THEN [s EXCEPT !.result = <<IterationResultOf(max_iterations, 0, 0)>>]
             ELSE [ x |-> x, y |-> y,
                    x2 |-> MulFin(x, x), y2 |-> MulFin(y, y), xy |-> MulFin(x, y),
                    i |-> s.i + 1,
                    xh |-> IF refresh THEN x ELSE s.xh,
                    yh |-> IF refresh THEN y ELSE s.yh,
                    since |-> (IF refresh THEN 0 ELSE s.since) + 1,
                    max_periodicity |->
                        IF grow THEN s.max_periodicity * 2 ELSE s.max_periodicity,
                    cycles |->
                        IF refresh THEN (IF grow THEN 0 ELSE s.cycles) + 1
                        ELSE s.cycles,
                    result |-> << >> ]
    ELSE IF s.i >= max_iterations
         THEN [s EXCEPT !.result = <<IterationResultOf(max_iterations, 0, s.i)>>]
         ELSE LET nu == Log2(Log2(s.x2 + s.y2) \div 2)
              IN  [s EXCEPT !.result =
                      <<IterationResultOf(s.i, Max2(0, Dec(1, 1) - nu), s.i)>>]

\* up to n steps of the loop from s, stopping at the return; the steps are
\* split in halves, which keeps the evaluation depth logarithmic in n
RECURSIVE IterRun(_, _, _, _, _)
IterRun(max_iterations, escape_radius2, c, s, n) ==
    IF s.result # << >> THEN s
    ELSE IF n = 1 THEN IterStep(max_iterations, escape_radius2, c, s)
    ELSE IterRun(max_iterations, escape_radius2, c,
                 IterRun(max_iterations, escape_radius2, c, s, n \div 2),
                 n - n \div 2)

\* the loop's local variables when the `while` is reached
IterStart(c) ==
    [ x |-> c.x, y |-> c.y,
      x2 |-> MulFin(c.x, c.x), y2 |-> MulFin(c.y, c.y), xy |-> MulFin(c.x, c.y),
      i |-> 0, xh |-> 0, yh |-> 0,
      since |-> 0, max_periodicity |-> 3, cycles |-> 0,
      result |-> << >> ]

\* the `while` of iter_to_divergence run to its return: max_iterations
\* evaluations of the condition that enter the body and one that does not
IterLoop(max_iterations, escape_radius2, c) ==
    IterRun(max_iterations, escape_radius2, c, IterStart(c), max_iterations + 1)

\* MandelIterator::iter_to_divergence.  For a non-finite c every comparison
\* of the shortcut tests and the loop condition is false, so the loop is not
\* entered: i = 0, and f64::max(0., 1. - nu) is 0 for nu = +inf or NaN.
IterToDivergence(max_iterations, escape_radius2, c) ==
    IF ~(IsFin(c.x) /\ IsFin(c.y))
    THEN IterationResultOf(0, 0, 0)
    ELSE IF IsKnownMember(c)
    THEN IterationResultOf(max_iterations, 0, 0)
    ELSE IF IsPartOfBulbOrMainCardioid(c, MulFin(c.y, c.y))
    THEN IterationResultOf(max_iterations, 0, 0)
    ELSE IterLoop(max_iterations, escape_radius2, c).result[1]

\* One evaluation of the `while` condition of iteration_points on its local
\* variables s, followed by the loop body when the condition is true;
\* s.done is set when it is false.  s.res is the vector being filled.
TraceStep(max_iterations, escape_radius2, c, s) ==
    IF s.i < max_iterations /\ (s.x2 + s.y2) < escape_radius2
    THEN LET x == s.x2 - s.y2 + c.x
             y == s.xy + s.xy + c.y
         IN  [ x2 |-> MulFin(x, x), y2 |-> MulFin(y, y), xy |-> MulFin(x, y),
               i |-> s.i + 1, res |-> Append(s.res, Vec(x, y)), done |-> FALSE ]
    ELSE [s EXCEPT !.done = TRUE]

RECURSIVE TraceRun(_, _, _, _, _)
TraceRun(max_iterations, escape_radius2, c, s, n) ==
    IF s.done THEN s
    ELSE IF n = 1 THEN TraceStep(max_iterations, escape_radius2, c, s)
    ELSE TraceRun(max_iterations, escape_radius2, c,
                  TraceRun(max_iterations, escape_radius2, c, s, n \div 2),
                  n - n \div 2)

\* MandelIterator::iteration_points.  For a non-finite c the loop condition
\* is false at once and the vector holds c alone.
IterationPoints(max_iterations, escape_radius2, c) ==
    IF ~(IsFin(c.x) /\ IsFin(c.y))
    THEN <<c>>
    ELSE TraceRun(max_iterations, escape_radius2, c,
            [ x2 |-> MulFin(c.x, c.x), y2 |-> MulFin(c.y, c.y), xy |-> MulFin(c.x, c.y),
              i |-> 0, res |-> <<c>>, done |-> FALSE ],
            max_iterations + 1).res

\* ------------------------------------------------------------------------
\* ParIterResult (histogram[k + 1] is the code's histogram[k])
\* ------------------------------------------------------------------------
\* ParIterResult::new
ParIterResultNew(max_iterations) ==
    [ histogram |-> [k \in 1..max_iterations |-> 0],
      min_smooth |-> Dec(100, 1),
      max_smooth |-> 0,
      computed_iteration_count |-> 0 ]

\* add counting a point that reached max_iterations into the last bin: the
\* fault C8 is tested against
ParIterResultAddAll(self, iter_res) ==
    [ self EXCEPT
        !.histogram[Min2(iter_res.iterations + 1, Len(self.histogram))] = @ + 1,
        !.computed_iteration_count = @ + iter_res.computed ]

\* ParIterResult::add
ParIterResultAdd(self, iter_res) ==
    LET counted == iter_res.iterations < Len(self.histogram)
    IN  [ histogram |->
              IF counted
              THEN [self.histogram EXCEPT ![iter_res.iterations + 1] = @ + 1]
              ELSE self.histogram,
          max_smooth |->
              IF counted /\ iter_res.smooth > self.max_smooth
              THEN iter_res.smooth ELSE self.max_smooth,
          min_smooth |->
              IF counted /\ iter_res.smooth < self.min_smooth
              THEN iter_res.smooth ELSE self.min_smooth,
          computed_iteration_count |->
              self.computed_iteration_count + iter_res.computed ]

\* combine keeping its own min_smooth: the fault C9 is tested against
ParIterResultCombineKeepMin(self, other) ==
    [ histogram |->
          [k \in 1..Len(self.histogram) |-> self.histogram[k] + other.histogram[k]],
      min_smooth |-> self.min_smooth,
      max_smooth |->
          IF other.max_smooth > self.max_smooth THEN other.max_smooth ELSE self.max_smooth,
      computed_iteration_count |->
          self.computed_iteration_count + other.computed_iteration_count ]

\* combine keeping its own computed_iteration_count: the fault C10 is
\* tested against
ParIterResultCombineKeepCount(self, other) ==
    [ histogram |->
          [k \in 1..Len(self.histogram) |-> self.histogram[k] + other.histogram[k]],
      min_smooth |->
          IF other.min_smooth < self.min_smooth THEN other.min_smooth ELSE self.min_smooth,
      max_smooth |->
          IF other.max_smooth > self.max_smooth THEN other.max_smooth ELSE self.max_smooth,
      computed_iteration_count |-> self.computed_iteration_count ]

\* ParIterResult::combine (both histograms have the iterator's length)
ParIterResultCombine(self, other) ==
    [ histogram |->
          [k \in 1..Len(self.histogram) |-> self.histogram[k] + other.histogram[k]],
      min_smooth |->
          IF other.min_smooth < self.min_smooth THEN other.min_smooth ELSE self.min_smooth,
      max_smooth |->
          IF other.max_smooth > self.max_smooth THEN other.max_smooth ELSE self.max_smooth,
      computed_iteration_count |->
          self.computed_iteration_count + other.computed_iteration_count ]

\* ------------------------------------------------------------------------
\* color_picker.rs
\* ------------------------------------------------------------------------
SPACE_SIZE == Dec(75, 100)

Color(r, g, b) == [r |-> r, g |-> g, b |-> b]
BLACK == Color(0, 0, 0)
WHITE == Color(Dec(1, 1), Dec(1, 1), Dec(1, 1))
DARK_GREY == Color(Dec(1, 10), Dec(1, 10), Dec(1, 10))

\* HSV::new (the hues given to it in this program are inside [0, 360))
HSVNew(hue, saturation, value) ==
    [hue |-> hue, saturation |-> saturation, value |-> value]

\* HSV::rgb reaches its panic! arm: no range of the match holds the hue
HSVRgbPanics(hue) == ~(~FLt(hue, 0) /\ hue # NaN /\ FLt(hue, Dec(360, 1)))

\* HSV::rgb and HSV::color, for a hue inside [0, 360)
HSVColor(hue, saturation, value) ==
    LET c == MulFin(value, saturation)
        m == MulFin(value, Dec(1, 1) - saturation)
        x == MulFin(c, Dec(1, 1) - Abs((RoundDiv(hue, 60) % Dec(2, 1)) - Dec(1, 1)))
        rgb == IF hue < Dec(60, 1) THEN <<c, x, 0>>
               ELSE IF hue < Dec(120, 1) THEN <<x, c, 0>>
               ELSE IF hue < Dec(180, 1) THEN <<0, c, x>>
               ELSE IF hue < Dec(240, 1) THEN <<0, x, c>>
               ELSE IF hue < Dec(300, 1) THEN <<x, 0, c>>
               ELSE <<c, 0, x>>
    IN  Color(rgb[1] + m, rgb[2] + m, rgb[3] + m)

\* ColorPicker::new
ColorPickerNew(current_pick, screen_size_ratio, screen_dest_ratio) ==
    [ current_pick |-> current_pick,
      last_size |-> 0,
      last_dest |-> Vec(0, 0),
      screen_size_ratio |-> screen_size_ratio,
      screen_dest_ratio |-> screen_dest_ratio ]

\* ColorPicker::color
PickerColor(picker) ==
    HSVColor(picker.current_pick.hue, picker.current_pick.saturation,
             picker.current_pick.value)

PickerColorPanics(picker) == HSVRgbPanics(picker.current_pick.hue)

\* ColorPicker::set_view
SetView(picker, screen_size, screen_dest) ==
    LET screen_min_size == F64OfScreen(Min2(screen_size.x, screen_size.y))
    IN  [picker EXCEPT
            !.last_size = MulFin(screen_min_size, picker.screen_size_ratio),
            !.last_dest =
                Vec(F64OfScreen(screen_dest.x)
                        + MulFin(screen_min_size, picker.screen_dest_ratio.x),
                    F64OfScreen(screen_dest.y)
                        + MulFin(screen_min_size, picker.screen_dest_ratio.y))]

\* ColorPicker::incr_value
IncrValue(picker, incr) ==
    IF \/ picker.current_pick.value > 0 /\ incr < 0
       \/ picker.current_pick.value < Dec(1, 1) /\ incr > 0
    THEN [picker EXCEPT !.current_pick.value = @ + incr]
    ELSE picker

\* ColorPicker::adjust_for_key
PickerAdjustForKey(picker, key) ==
    CASE key = "Down" -> IncrValue(picker, 0 - Dec(25, 100))
      [] key = "Up" -> IncrValue(picker, Dec(25, 100))
      [] OTHER -> picker

\* ColorPicker::adjust_for_click; x and y are f32 screen coordinates.
\* Rect::contains takes the four edges of the rectangle as inside.
PickerAdjustForClick(picker, button, x, y) ==
    LET left_top_dest == Vec(picker.last_dest.x - picker.last_size \div 2,
                             picker.last_dest.y - picker.last_size \div 2)
        side == MulFin(picker.last_size, SPACE_SIZE)
        px == F64OfScreen(x)
        py == F64OfScreen(y)
        diff_x == px - left_top_dest.x
        diff_y == py - left_top_dest.y
        inside == /\ px >= left_top_dest.x /\ px <= left_top_dest.x + side
                  /\ py >= left_top_dest.y /\ py <= left_top_dest.y + side
    IN  IF button = "Left" /\ inside
        THEN [picker EXCEPT
                !.current_pick.hue = FMul(FDiv(diff_x, side), Dec(360, 1)),
                !.current_pick.saturation = FDiv(diff_y, side)]
        ELSE picker

\* ------------------------------------------------------------------------
\* utils.rs and the colour ramp of compute_drawables
\* ------------------------------------------------------------------------
\* utils::interpolate_color
InterpolateColor(start_color, end_color, interpolation) ==
    Color(start_color.r + MulFin(interpolation, end_color.r - start_color.r),
          start_color.g + MulFin(interpolation, end_color.g - start_color.g),
          start_color.b + MulFin(interpolation, end_color.b - start_color.b))

\* Color::to_rgb: each component times 255, cast to u8 (truncating, saturating)
ToU8(component) == Max2(0, Min2(255, (Max2(component, 0) * 255) \div Scale))
ToRgb(color) == <<ToU8(color.r), ToU8(color.g), ToU8(color.b)>>

\* sin(u * PI / 2) for u in [0, 2] quarter turns, by Bhaskara's rational
\* approximation (exact at 0, 1/3, 1, 5/3 and 2)
SinHalfTurn(u) ==
    LET p == MulFin(u, Dec(2, 1) - u)
    IN  FDiv(4 * p, Dec(5, 1) - p)

\* f32::sin(u * PI / 2) for u in [-1, 3) quarter turns
SinQuarterTurns(u) ==
    IF u < 0 THEN 0 - SinHalfTurn(0 - u)
    ELSE IF u <= Dec(2, 1) THEN SinHalfTurn(u)
    ELSE 0 - SinHalfTurn(u - Dec(2, 1))

\* the colour of the ramp for iteration_count: the else arm of the colour
\* pass of compute_drawables
RampColor(iteration_count, colors) ==
    LET n_colors == F64OfInt(Len(colors) - 1)
        interpolation == RoundDiv(iteration_count, 25) % n_colors
        color1_index == interpolation \div Scale
        color1 == colors[color1_index + 1]
        color2 == colors[color1_index + 2]
        \* sin(interpolation * 2 PI / n_colors - PI / 2) with n_colors = 4
        sub_interpolation == SinQuarterTurns(interpolation - Dec(1, 1))
        sign == IF color1_index < 2 THEN 1 ELSE 0 - 1
        adder == IF color1_index % 2 = 0 THEN Dec(1, 1) ELSE 0
    IN  ToRgb(InterpolateColor(color1, color2, adder + sign * sub_interpolation))

\* the colour pass without the test against max_iterations: the fault C11
\* is tested against
PixelColorRampOnly(iteration_count, max_iterations, colors) ==
    RampColor(iteration_count, colors)

\* the colour written for one pixel by the colour pass of compute_drawables
PixelColor(iteration_count, max_iterations, colors) ==
    IF iteration_count >= F64OfInt(max_iterations)
    THEN ToRgb(BLACK)
    ELSE RampColor(iteration_count, colors)

\* ------------------------------------------------------------------------
\* MandelbrotSet.  The struct is the record `mandel`; Option values are
\* sequences of length 0 (None) or 1 (Some).  compute_time_ms holds wall
\* clock readings and is left out; iteration_rate keeps the two operands
\* of its quotient.
\* ------------------------------------------------------------------------
\* MandelbrotSet::new
MandelbrotSetNew ==
    [ iteration_rate |-> [num |-> 0, den |-> 1],
      pixels |-> << >>,
      img |-> << >>,
      iteration_counts |-> << >>,
      histogram |-> [k \in 1..DEFAULT_MAX_ITERATIONS |-> 0],
      box_center |-> REMARKABLE_POINTS[1],
      box_size |-> Vec(DEFAULT_SPAN, DEFAULT_SPAN),
      max_iterations |-> DEFAULT_MAX_ITERATIONS,
      last_colors |-> <<BLACK, BLACK>>,
      last_max_iterations |-> 0,
      last_view_box |-> ViewBoxZero,
      out_color_picker |->
          ColorPickerNew(HSVNew(Dec(236, 1), Dec(96, 100), Dec(94, 100)),
                         Dec(1, 2), Vec(0 - Dec(1, 5), 0)),
      almost_in_color_picker |->
          ColorPickerNew(HSVNew(Dec(30, 1), Dec(91, 100), Dec(109, 100)),
                         Dec(1, 2), Vec(Dec(1, 5), 0)),
      displayed_param |-> MAX_ITERATIONS_PARAM,
      escape_radius2 |-> MulFin(ESCAPE_RADIUS, ESCAPE_RADIUS),
      show_histogram |-> FALSE,
      drag_translation |-> Vec(0, 0),
      show_point_details |-> << >>,
      selected_remarkable_point |-> 0 ]

\* reset_to_remarkable_point leaving max_iterations alone: the fault C14 is
\* tested against
ResetKeepsDwell(m) ==
    [m EXCEPT !.box_center = REMARKABLE_POINTS[m.selected_remarkable_point + 1],
              !.box_size = Vec(DEFAULT_SPAN, DEFAULT_SPAN)]

\* MandelbrotSet::reset_to_remarkable_point
ResetToRemarkablePoint(m) ==
    [m EXCEPT !.box_center = REMARKABLE_POINTS[m.selected_remarkable_point + 1],
              !.box_size = Vec(DEFAULT_SPAN, DEFAULT_SPAN),
              !.max_iterations = 100]

\* adjust_zoom scaling the width alone: the fault C6 is tested against
AdjustZoomWidthOnly(m, dir) ==
    [m EXCEPT !.box_size.x = FMul(@, Dec(1, 1) + dir * ZOOM_STEP_PCT),
              !.show_point_details = << >>]

\* MandelbrotSet::adjust_zoom
AdjustZoom(m, dir) ==
    LET factor == Dec(1, 1) + dir * ZOOM_STEP_PCT
    IN  [m EXCEPT !.box_size = Vec(FMul(m.box_size.x, factor), FMul(m.box_size.y, factor)),
                  !.show_point_details = << >>]

\* color_changed looking at the out colour alone: the fault C2 is tested
\* against
ColorChangedOutOnly(m) == m.last_colors[1] # PickerColor(m.out_color_picker)

\* MandelbrotSet::color_changed
ColorChanged(m) ==
    \/ m.last_colors[1] # PickerColor(m.out_color_picker)
    \/ m.last_colors[2] # PickerColor(m.almost_in_color_picker)

\* MandelbrotSet::displayed_color_picker: the field of the displayed picker
DisplayedColorPicker(m) ==
    CASE m.displayed_param = OUT_COLOR_PARAM -> <<"out_color_picker">>
      [] m.displayed_param = ALMOST_IN_COLOR_PARAM -> <<"almost_in_color_picker">>
      [] OTHER -> << >>

\* MandelbrotSet::record_last_values
RecordLastValues(m, view_box) ==
    [m EXCEPT !.last_colors = <<PickerColor(m.out_color_picker),
                                PickerColor(m.almost_in_color_picker)>>,
              !.last_max_iterations = m.max_iterations,
              !.last_view_box = view_box]

\* MandelbrotSet::need_recreate_pixel_cache
NeedRecreatePixelCache(m, view_box) == SizeChanged(m.last_view_box, view_box)

\* need_recompute_iterations looking at the screen size and the depth alone:
\* the fault C24 is tested against
NeedRecomputeIterationsNoPan(m, view_box) ==
    \/ SizeChanged(m.last_view_box, view_box)
    \/ m.last_max_iterations # m.max_iterations

\* need_recompute_iterations without the max_iterations comparison: the
\* fault C3 is tested against
NeedRecomputeIterationsNoDwell(m, view_box) ==
    \/ SizeChanged(m.last_view_box, view_box)
    \/ VecNe(m.last_view_box.box_center, m.box_center)
    \/ VecNe(m.last_view_box.box_size, m.box_size)

\* MandelbrotSet::need_recompute_iterations
NeedRecomputeIterations(m, view_box) ==
    \/ NeedRecreatePixelCache(m, view_box)
    \/ VecNe(m.last_view_box.box_center, m.box_center)
    \/ VecNe(m.last_view_box.box_size, m.box_size)
    \/ m.last_max_iterations # m.max_iterations

\* need_recompute_image looking at the colours alone: the fault C4 is
\* tested against
NeedRecomputeImageColorsOnly(m, view_box) ==
    \/ m.last_colors[1] # PickerColor(m.out_color_picker)
    \/ m.last_colors[2] # PickerColor(m.almost_in_color_picker)

\* MandelbrotSet::need_recompute_image
NeedRecomputeImage(m, view_box) ==
    NeedRecomputeIterations(m, view_box) \/ ColorChanged(m)

\* the map closure of the iteration pass: the IterationResult of the pixel
\* with 0-based index i
IterResultAt(m, view_box, i) ==
    IterToDivergence(m.max_iterations, m.escape_radius2, MandelPointFromIndex(view_box, i))

\* the value the map closure stores in iteration_counts:
\* iterations as f32 + smooth as f32
IterCountOf(iteration_result) ==
    F64OfInt(iteration_result.iterations) + iteration_result.smooth

\* enumerate().map(..) of the iteration pass over the first n pixels: the
\* IterationResult of each pixel, in index order
RECURSIVE MapResults(_, _, _)
MapResults(m, view_box, n) ==
    IF n = 0 THEN << >>
    ELSE Append(MapResults(m, view_box, n - 1), IterResultAt(m, view_box, n - 1))

\* the values the map closure stores in iteration_counts
RECURSIVE StoreCounts(_, _)
StoreCounts(results, n) ==
    IF n = 0 THEN << >>
    ELSE Append(StoreCounts(results, n - 1), IterCountOf(results[n]))

\* fold(|| ParIterResult::new(..), |acc, elt| acc.add(elt)) over results[1..n]
RECURSIVE FoldAdd(_, _, _)
FoldAdd(acc, results, n) ==
    IF n = 0 THEN acc ELSE ParIterResultAdd(FoldAdd(acc, results, n - 1), results[n])

\* the iteration pass of compute_drawables, with the pixels visited in
\* index order by one worker
IterationPass(m, view_box, size) ==
    LET n == Len(m.iteration_counts)
        results == MapResults(m, view_box, n)
        final_acc == ParIterResultCombine(ParIterResultNew(m.max_iterations),
                        FoldAdd(ParIterResultNew(m.max_iterations), results, n))
    IN  [m EXCEPT
            !.iteration_counts = StoreCounts(results, n),
            !.iteration_rate =
                [num |-> final_acc.computed_iteration_count,
                 den |-> m.max_iterations
                           * ((size.x * size.y) \div (ScreenUnit * ScreenUnit))],
            !.histogram = final_acc.histogram]

\* the colour pass over the first n chunks of four bytes of `pixels`: chunk
\* px_index gets blue, green, red; its fourth byte is not written
RECURSIVE Paint(_, _, _)
Paint(m, colors, n) ==
    IF n = 0 THEN << >>
    ELSE LET color == PixelColor(m.iteration_counts[n], m.max_iterations, colors)
         IN  Paint(m, colors, n - 1)
                \o <<color[3], color[2], color[1], m.pixels[4 * n]>>

\* the colour pass without the upload of the image: the fault C26 is tested
\* against
ColorPassNoUpload(m, view_box) ==
    LET out == PickerColor(m.out_color_picker)
        almost_in == PickerColor(m.almost_in_color_picker)
        colors == <<out, WHITE, almost_in, DARK_GREY, out>>
    IN  [m EXCEPT !.pixels = Paint(m, colors, Len(m.pixels) \div 4)]

\* the colour pass of compute_drawables and the upload of the image
ColorPass(m, view_box) ==
    LET out == PickerColor(m.out_color_picker)
        almost_in == PickerColor(m.almost_in_color_picker)
        colors == <<out, WHITE, almost_in, DARK_GREY, out>>
        pixels == Paint(m, colors, Len(m.pixels) \div 4)
    IN  [m EXCEPT
            !.pixels = pixels,
            !.img = << [ width |-> view_box.screen_size_i.x,
                         height |-> view_box.screen_size_i.y,
                         pixels |-> pixels ] >>]

\* the drawables with the image pushed first: the fault C12 is tested against
DrawablesImageFirst(m, dest, size) ==
    <<[kind |-> "image", z |-> 0 - 1]>>
    \o (IF m.show_point_details # << >> THEN <<[kind |-> "point_details", z |-> 0]>>
        ELSE << >>)
    \o (IF DisplayedColorPicker(m) # << >> THEN <<[kind |-> "color_picker", z |-> 0]>>
        ELSE << >>)
    \o (IF m.show_histogram THEN <<[kind |-> "histogram", z |-> 0]>> ELSE << >>)
    \o (IF m.drag_translation # Vec(0, 0) THEN <<[kind |-> "center_target", z |-> 0]>>
        ELSE << >>)

\* the drawables pushed at the end of compute_drawables, in order
Drawables(m, dest, size) ==
    (IF m.show_point_details # << >> THEN <<[kind |-> "point_details", z |-> 0]>>
     ELSE << >>)
    \o (IF DisplayedColorPicker(m) # << >> THEN <<[kind |-> "color_picker", z |-> 0]>>
        ELSE << >>)
    \o (IF m.show_histogram THEN <<[kind |-> "histogram", z |-> 0]>> ELSE << >>)
    \o (IF m.drag_translation # Vec(0, 0) THEN <<[kind |-> "center_target", z |-> 0]>>
        ELSE << >>)
    \o <<[kind |-> "image", z |-> 0 - 1]>>

\* The stages of compute_drawables.  Each takes and returns the struct (m)
\* together with the record of which stages ran so far (ran).
NoRun == [cache |-> FALSE, iterations |-> FALSE, image |-> FALSE]

\* if self.need_recreate_pixel_cache(&view_box) { .. }
CacheStage(r, view_box) ==
    IF NeedRecreatePixelCache(r.m, view_box)
    THEN [ m |-> [r.m EXCEPT
                    !.pixels = [k \in 1..(4 * view_box.pixel_count) |-> 255],
                    !.iteration_counts = [k \in 1..view_box.pixel_count |-> 0]],
           ran |-> [r.ran EXCEPT !.cache = TRUE] ]
    ELSE r

\* if self.need_recompute_iterations(&view_box) { .. }
IterationStage(r, view_box, size) ==
    IF NeedRecomputeIterations(r.m, view_box)
    THEN [ m |-> IterationPass(r.m, view_box, size),
           ran |-> [r.ran EXCEPT !.iterations = TRUE] ]
    ELSE r

\* if self.need_recompute_image(&view_box) { .. }
ImageStage(r, view_box) ==
    IF NeedRecomputeImage(r.m, view_box)
    THEN [ m |-> ColorPass(r.m, view_box),
           ran |-> [r.ran EXCEPT !.image = TRUE] ]
    ELSE r

\* if let Some(picker) = self.displayed_color_picker_mut() { picker.set_view(..) }
\* followed by self.record_last_values(&view_box) and the list of drawables
FinishStage(r, view_box, dest, size) ==
    LET shown == DisplayedColorPicker(r.m)
        m == RecordLastValues(
                 IF shown # << >>
                 THEN [r.m EXCEPT ![shown[1]] = SetView(@, size, dest)]
                 ELSE r.m,
                 view_box)
    IN  [ m |-> m, ran |-> r.ran, drawables |-> Drawables(m, dest, size) ]

\* MandelbrotSet::compute_drawables(dest, size): the struct after the call
\* (m), which of the three stages ran (ran) and the returned list
ComputeDrawablesIn(m0, view_box, dest, size) ==
    FinishStage(
        ImageStage(
            IterationStage(
                CacheStage([m |-> m0, ran |-> NoRun], view_box),
                view_box, size),
            view_box),
        view_box, dest, size)

ComputeDrawables(m0, dest, size) ==
    ComputeDrawablesIn(m0, ViewBoxFromCenterSize(dest, size, m0.box_center, m0.box_size),
                       dest, size)

\* compute_drawables panics in ColorPicker::color: a picked colour cannot
\* be computed
ComputeDrawablesPanics(m0) ==
    \/ PickerColorPanics(m0.out_color_picker)
    \/ PickerColorPanics(m0.almost_in_color_picker)

\* ViewBox::screen_pixel_index; the cast `as usize` sends a negative value
\* to 0.  x and y are f32 screen coordinates.
ScreenPixelIndex(vb, screen_x, screen_y) ==
    Max2(0, RoundToInt((screen_x - ScreenOfInt(vb.screen_min_i.x))
                       + (screen_y - ScreenOfInt(vb.screen_min_i.x)) * vb.screen_size_i.x))

\* adjust_for_mouse_button_up handing the click to the displayed picker and
\* going on to the arms of the buttons: the fault C29 is tested against
AdjustForMouseButtonUpFallThrough(m0, button, x, y, drag_start) ==
    LET shown == DisplayedColorPicker(m0)
        m == IF shown # << >>
             THEN [m0 EXCEPT !.drag_translation = Vec(0, 0),
                             ![shown[1]] = PickerAdjustForClick(@, button, x, y)]
             ELSE [m0 EXCEPT !.drag_translation = Vec(0, 0)]
    IN  IF button = "Left"
        THEN [m EXCEPT
                !.box_center =
                    Vec(FAdd(m.box_center.x,
                             FMul(F64OfScreen(drag_start.x - x),
                                  m.last_view_box.box_screen_ratio)),
                        FAdd(m.box_center.y,
                             FMul(F64OfScreen(drag_start.y - y),
                                  m.last_view_box.box_screen_ratio))),
                !.show_point_details = << >>]
        ELSE IF button = "Right"
        THEN [m EXCEPT
                !.show_point_details =
                    << [ point |-> MandelPoint(m.last_view_box,
                                               Sign(x) * (Abs(x) \div ScreenUnit),
                                               Sign(y) * (Abs(y) \div ScreenUnit)),
                         index |-> ScreenPixelIndex(m.last_view_box, x, y) ] >>]
        ELSE m

\* MandelbrotSet::adjust_for_mouse_button_up; `x as i32` truncates
AdjustForMouseButtonUp(m0, button, x, y, drag_start) ==
    LET m == [m0 EXCEPT !.drag_translation = Vec(0, 0)]
        shown == DisplayedColorPicker(m)
    IN  IF shown # << >>
        THEN [m EXCEPT ![shown[1]] = PickerAdjustForClick(@, button, x, y)]
        ELSE IF button = "Left"
        THEN [m EXCEPT
                !.box_center =
                    Vec(FAdd(m.box_center.x,
                             FMul(F64OfScreen(drag_start.x - x),
                                  m.last_view_box.box_screen_ratio)),
                        FAdd(m.box_center.y,
                             FMul(F64OfScreen(drag_start.y - y),
                                  m.last_view_box.box_screen_ratio))),
                !.show_point_details = << >>]
        ELSE IF button = "Right"
        THEN [m EXCEPT
                !.show_point_details =
                    << [ point |-> MandelPoint(m.last_view_box,
                                               Sign(x) * (Abs(x) \div ScreenUnit),
                                               Sign(y) * (Abs(y) \div ScreenUnit)),
                         index |-> ScreenPixelIndex(m.last_view_box, x, y) ] >>]
        ELSE m

\* MandelbrotSet::adjust_for_mouse_drag
AdjustForMouseDrag(m, x, y, drag_start) ==
    [m EXCEPT !.drag_translation = Vec(x - drag_start.x, y - drag_start.y),
              !.show_point_details = << >>]

\* MandelbrotSet::adjust_for_mouse_wheel; (-w / w) as i8 is -1 for every
\* wheel_y_dir with f32::abs(wheel_y_dir) >= 0.5
AdjustForMouseWheel(m, x, y, wheel_y_dir) ==
    IF Abs(wheel_y_dir) >= ScreenUnit \div 2
    THEN AdjustZoom(m, (0 - wheel_y_dir) \div wheel_y_dir)
    ELSE m

\* MandelbrotSet::adjust_for_key_up
AdjustForKeyUp(m0, key) ==
    LET m == CASE key = "Escape" -> [m0 EXCEPT !.displayed_param = MAX_ITERATIONS_PARAM]
               [] key = "R" -> ResetToRemarkablePoint(m0)
               [] key = "H" -> [m0 EXCEPT !.show_histogram = ~@]
               [] key = "Z" -> AdjustZoom(m0, 0 - 1)
               [] key = "X" -> AdjustZoom(m0, 1)
               [] OTHER -> m0
        shown == DisplayedColorPicker(m)
    IN  IF shown # << >>
        THEN [m EXCEPT ![shown[1]] = PickerAdjustForKey(@, key)]
        ELSE m

\* MandelbrotSet::update_ui with at most one widget of the side panel
\* clicked in the frame; <<"select", i>> picks entry i of the combo box
UpdateUi(m, click) ==
    CASE click = <<"dwell-">> -> [m EXCEPT !.max_iterations = @ \div 2]
      [] click = <<"dwell+">> -> [m EXCEPT !.max_iterations = @ * 2]
      [] click = <<"histogramme">> -> [m EXCEPT !.show_histogram = ~@]
      [] click = <<"couleur1">> ->
           [m EXCEPT !.displayed_param =
                IF @ = OUT_COLOR_PARAM THEN MAX_ITERATIONS_PARAM ELSE OUT_COLOR_PARAM]
      [] click = <<"couleur2">> ->
           [m EXCEPT !.displayed_param =
                IF @ = ALMOST_IN_COLOR_PARAM THEN MAX_ITERATIONS_PARAM
                ELSE ALMOST_IN_COLOR_PARAM]
      [] click = <<"aller">> -> ResetToRemarkablePoint(m)
      [] Len(click) = 2 -> [m EXCEPT !.selected_remarkable_point = click[2]]
      [] OTHER -> m

\* update_ui panics: color32() of a picker cannot be computed, or the
\* iteration count of the inspected point is read outside the buffer
UpdateUiPanics(m) ==
    \/ PickerColorPanics(m.out_color_picker)
    \/ PickerColorPanics(m.almost_in_color_picker)
    \/ /\ m.show_point_details # << >>
       /\ m.show_point_details[1].index >= Len(m.iteration_counts)

\* ------------------------------------------------------------------------
\* The host (lissajou_app.rs): LissajouApp owns the MandelbrotSet, forwards
\* every input event to it, and on each frame calls update_ui and then
\* compute_drawables with the size of the area right of the side panel.
\* ------------------------------------------------------------------------
SIDE_PANEL_WIDTH_PX == 256

VARIABLES
    mandel,   \* the MandelbrotSet
    pc,       \* "events": between frames; "draw": update has run, draw is next
    panic,    \* "none", or the call whose panic ended the program
    events,   \* input events delivered so far
    frame,    \* width and height in pixels of the area right of the side
              \* panel (ctx.gfx.frame() less the panel)
    call,     \* the last call into the MandelbrotSet and, for
              \* compute_drawables, the stages it ran and what it returned
    drawn,    \* what the last completed compute_drawables call was given:
              \* << >> before the first, else one record
    parts,    \* reduction algebra: three partial results and the steps taken
    todo,     \* parallel pass: indexes of the pixels no worker has taken yet
    accs,     \* parallel pass: the accumulators of the fold segments
    sample,   \* iterator alone: one MandelIterator, one plane point and what
              \* iter_to_divergence and iteration_points returned for it
    pass,     \* parallel pass: the writes made to each slot of
              \* iteration_counts, and what the colour pass read from them
    loop,     \* the `while` of iter_to_divergence, one evaluation of its
              \* condition at a time, with the checkpoint refreshes seen
    harmo,    \* the Harmonograph
    dejong,   \* the DeJongAttractor, with the axis events it was sent
    colorpick \* one ColorPicker on its own, with the events it was sent

hostvars == <<mandel, pc, panic, events, frame, call, drawn>>
curvevars == <<loop, harmo, dejong, colorpick>>
parvars == <<parts, todo, accs, sample, pass, curvevars>>
vars == <<mandel, pc, panic, events, frame, call, drawn, parts, todo, accs, sample, pass,
          loop, harmo, dejong, colorpick>>

Widths == 2..MaxWidth
Heights == 2..MaxHeight
Keys == {"Escape", "R", "H", "Z", "X", "Up", "Down", "Space"}
Buttons == {"Left", "Right", "Middle"}
\* wheel_y_dir: one click towards the user, none, one click away
WheelDirs == {0 - ScreenUnit, 0, ScreenUnit}
\* mouse positions: pixels (256, 0) and (257, 1)
MousePoints == { Vec(ScreenOfInt(SIDE_PANEL_WIDTH_PX), 0),
                 Vec(ScreenOfInt(SIDE_PANEL_WIDTH_PX + 1), ScreenOfInt(1)) }
\* what is clicked in the side panel during one update_ui
Clicks == { <<"none">>, <<"dwell-">>, <<"dwell+">>, <<"histogramme">>,
            <<"couleur1">>, <<"couleur2">>, <<"aller">> }
          \cup { <<"select", i>> : i \in 0..MaxPreset }

Called(op) == [op |-> op, ran |-> NoRun, drawables |-> << >>]

HostInit ==
    /\ mandel = MandelbrotSetNew
    /\ pc = "events"
    /\ panic = "none"
    /\ events = 0
    /\ frame = Vec(2, 2)
    /\ call = Called("new")
    /\ drawn = << >>

Init ==
    /\ HostInit
    /\ parts = << >>
    /\ todo = {}
    /\ accs = << >>
    /\ sample = << >>
    /\ pass = << >>
    /\ loop = << >>
    /\ harmo = << >>
    /\ dejong = << >>
    /\ colorpick = << >>

\* LissajouApp::draw: the frame is w x h pixels
FrameSize(w, h) == Vec(ScreenOfInt(w), ScreenOfInt(h))
FrameDest(w, h) == Vec(ScreenOfInt(SIDE_PANEL_WIDTH_PX) + ScreenOfInt(w) \div 2,
                       ScreenOfInt(h) \div 2)

\* the colours of the two pickers, as compute_drawables reads them
PickedColors(m) == <<PickerColor(m.out_color_picker), PickerColor(m.almost_in_color_picker)>>

\* EventHandler::update: update_ui, with at most one widget clicked
Update(click) ==
    /\ panic = "none"
    /\ pc = "events"
    /\ click # <<"none">> => events < MaxEvents
    /\ click = <<"dwell+">> => mandel.max_iterations * 2 <= MaxDwell
    /\ events' = IF click = <<"none">> THEN events ELSE events + 1
    /\ call' = Called("update_ui")
    /\ IF UpdateUiPanics(mandel)
       THEN panic' = "update_ui" /\ UNCHANGED <<mandel, pc>>
       ELSE mandel' = UpdateUi(mandel, click) /\ pc' = "draw" /\ UNCHANGED panic
    /\ UNCHANGED <<frame, drawn, parvars>>

\* EventHandler::draw, which follows update in the same pass of the event
\* loop: compute_drawables for the current frame
Draw ==
    /\ panic = "none"
    /\ pc = "draw"
    /\ IF ComputeDrawablesPanics(mandel)
       THEN /\ panic' = "compute_drawables"
            /\ call' = Called("compute_drawables")
            /\ UNCHANGED <<mandel, pc, drawn>>
       ELSE LET r == ComputeDrawables(mandel, FrameDest(frame.x, frame.y),
                                      FrameSize(frame.x, frame.y))
            IN  /\ mandel' = r.m
                /\ call' = [op |-> "compute_drawables",
                            ran |-> r.ran, drawables |-> r.drawables]
                /\ drawn' = << [ frame |-> frame,
                                 box_center |-> mandel.box_center,
                                 box_size |-> mandel.box_size,
                                 max_iterations |-> mandel.max_iterations,
                                 colors |-> PickedColors(mandel) ] >>
                /\ IF r.m.img = << >>
                   THEN panic' = "compute_drawables" /\ UNCHANGED pc
                   ELSE pc' = "events" /\ UNCHANGED panic
    /\ UNCHANGED <<events, frame, parvars>>

\* the window is resized: the frame becomes w x h pixels
Resize(w, h) ==
    /\ panic = "none"
    /\ pc = "events"
    /\ events < MaxEvents
    /\ frame # Vec(w, h)
    /\ events' = events + 1
    /\ frame' = Vec(w, h)
    /\ call' = Called("resize")
    /\ UNCHANGED <<mandel, pc, panic, drawn, parvars>>

\* EventHandler::key_up_event
KeyUp(key) ==
    /\ panic = "none"
    /\ pc = "events"
    /\ events < MaxEvents
    /\ events' = events + 1
    /\ mandel' = AdjustForKeyUp(mandel, key)
    /\ call' = Called("adjust_for_key_up")
    /\ UNCHANGED <<pc, panic, frame, drawn, parvars>>

\* EventHandler::mouse_wheel_event
MouseWheel(wheel_y) ==
    /\ panic = "none"
    /\ pc = "events"
    /\ events < MaxEvents
    /\ events' = events + 1
    /\ mandel' = AdjustForMouseWheel(mandel, 0, 0, wheel_y)
    /\ call' = Called("adjust_for_mouse_wheel")
    /\ UNCHANGED <<pc, panic, frame, drawn, parvars>>

\* EventHandler::mouse_button_up_event
MouseButtonUp(button, pos, drag_start) ==
    /\ panic = "none"
    /\ pc = "events"
    /\ events < MaxEvents
    /\ events' = events + 1
    /\ mandel' = AdjustForMouseButtonUp(mandel, button, pos.x, pos.y, drag_start)
    /\ call' = Called("adjust_for_mouse_button_up")
    /\ UNCHANGED <<pc, panic, frame, drawn, parvars>>

\* EventHandler::mouse_motion_event while the left button is down
MouseDrag(pos, drag_start) ==
    /\ panic = "none"
    /\ pc = "events"
    /\ events < MaxEvents
    /\ events' = events + 1
    /\ mandel' = AdjustForMouseDrag(mandel, pos.x, pos.y, drag_start)
    /\ call' = Called("adjust_for_mouse_drag")
    /\ UNCHANGED <<pc, panic, frame, drawn, parvars>>

Next ==
    \/ \E click \in Clicks : Update(click)
    \/ Draw
    \/ \E w \in Widths, h \in Heights : Resize(w, h)
    \/ \E key \in Keys : KeyUp(key)
    \/ \E wheel_y \in WheelDirs : MouseWheel(wheel_y)
    \/ \E button \in Buttons, pos \in MousePoints, drag_start \in MousePoints :
          MouseButtonUp(button, pos, drag_start)
    \/ \E pos \in MousePoints, drag_start \in MousePoints : MouseDrag(pos, drag_start)

Spec == Init /\ [][Next]_vars

\* ------------------------------------------------------------------------
\* The reduction of the iteration pass: .fold(new, add).reduce(new, combine)
\* ------------------------------------------------------------------------
\* the IterationResults an iterator with max_iterations = CombineLen hands
\* to add: an escaped point has iterations < max_iterations, computed =
\* iterations and 0 <= smooth <= 1; any other has iterations =
\* max_iterations, smooth = 0 and computed 0 or max_iterations
AlgebraResults ==
    { IterationResultOf(i, sm, i) :
          i \in 0..(CombineLen - 1), sm \in {0, Scale \div 2, Scale} }
    \cup { IterationResultOf(CombineLen, 0, c) : c \in {0, CombineLen} }

\* three partial results, each the fold identity
InitCombine ==
    /\ HostInit
    /\ parts = [ acc |-> [k \in 1..3 |-> ParIterResultNew(CombineLen)], steps |-> 0 ]
    /\ todo = {}
    /\ accs = << >>
    /\ sample = << >>
    /\ pass = << >>
    /\ loop = << >>
    /\ harmo = << >>
    /\ dejong = << >>
    /\ colorpick = << >>

\* acc.add(elt) on partial result k
AddTo(k, iter_res) ==
    /\ parts.steps < MaxSteps
    /\ parts' = [ acc |-> [parts.acc EXCEPT ![k] = ParIterResultAdd(@, iter_res)],
                  steps |-> parts.steps + 1 ]
    /\ UNCHANGED <<hostvars, todo, accs, sample, pass, curvevars>>

\* acc.combine(&elt) of partial result k into partial result j
CombineInto(j, k) ==
    /\ j # k
    /\ parts.steps < MaxSteps
    /\ parts' = [ acc |-> [parts.acc EXCEPT ![j] = ParIterResultCombine(@, parts.acc[k])],
                  steps |-> parts.steps + 1 ]
    /\ UNCHANGED <<hostvars, todo, accs, sample, pass, curvevars>>

NextCombine ==
    \/ \E k \in 1..3, iter_res \in AlgebraResults : AddTo(k, iter_res)
    \/ \E j \in 1..3, k \in 1..3 : CombineInto(j, k)

SpecCombine == InitCombine /\ [][NextCombine]_vars

\* The parallel iteration pass of one compute_drawables call on a new
\* MandelbrotSet: the pixels are folded into accumulators by any number of
\* workers in any grouping, and the accumulators are reduced in any order.
ParViewBox ==
    ViewBoxFromCenterSize(FrameDest(frame.x, frame.y), FrameSize(frame.x, frame.y),
                          mandel.box_center, mandel.box_size)

InitPar ==
    /\ HostInit
    /\ parts = << >>
    /\ todo = 0..(frame.x * frame.y - 1)
    /\ accs = << >>
    /\ sample = << >>
    /\ pass = [ writes |-> [i \in 0..(frame.x * frame.y - 1) |-> << >>], read |-> << >> ]
    /\ loop = << >>
    /\ harmo = << >>
    /\ dejong = << >>
    /\ colorpick = << >>

\* a fold segment starts: || ParIterResult::new(iterator.max_iterations)
ParSplit ==
    /\ Len(accs) < MaxWorkers
    /\ todo # {}
    /\ accs' = Append(accs, ParIterResultNew(mandel.max_iterations))
    /\ UNCHANGED <<hostvars, parts, todo, sample, pass, curvevars>>

\* what the map closure stores through iter_count for pixel i
ParCount(i) == IterCountOf(IterResultAt(mandel, ParViewBox, i))

\* ParFold with the item left in the iterator, to be handed out again:
\* the fault C19 is tested against
ParFoldAgain(w, i) ==
    /\ w \in 1..Len(accs)
    /\ i \in todo
    /\ pass.read = << >>
    /\ Len(pass.writes[i]) < 2
    /\ accs' = [accs EXCEPT ![w] = ParIterResultAdd(@, IterResultAt(mandel, ParViewBox, i))]
    /\ pass' = [pass EXCEPT !.writes[i] = Append(@, [worker |-> w, value |-> ParCount(i)])]
    /\ UNCHANGED <<hostvars, parts, sample, todo, curvevars>>

\* a worker takes item (i, iter_count) of par_iter_mut().enumerate(), which
\* hands out each item once; it maps it, writing the count of pixel i
\* through iter_count, and folds the result: |acc, elt| acc.add(elt)
ParFold(w, i) ==
    /\ w \in 1..Len(accs)
    /\ i \in todo
    /\ pass.read = << >>
    /\ accs' = [accs EXCEPT ![w] = ParIterResultAdd(@, IterResultAt(mandel, ParViewBox, i))]
    /\ pass' = [pass EXCEPT !.writes[i] = Append(@, [worker |-> w, value |-> ParCount(i)])]
    /\ todo' = todo \ {i}
    /\ UNCHANGED <<hostvars, parts, sample, curvevars>>

\* two accumulators are reduced: |acc, elt| acc.combine(&elt)
ParReduce(w1, w2) ==
    /\ w1 \in 1..Len(accs)
    /\ w2 \in 1..Len(accs)
    /\ w1 # w2
    /\ LET combined == [accs EXCEPT ![w1] = ParIterResultCombine(@, accs[w2])]
       IN  accs' = SubSeq(combined, 1, w2 - 1) \o SubSeq(combined, w2 + 1, Len(combined))
    /\ UNCHANGED <<hostvars, parts, todo, sample, pass, curvevars>>

\* an accumulator is reduced with the identity of reduce:
\* || ParIterResult::new(iterator.max_iterations)
ParReduceIdentity(w) ==
    /\ w \in 1..Len(accs)
    /\ accs' = [accs EXCEPT ![w] =
                   ParIterResultCombine(ParIterResultNew(mandel.max_iterations), @)]
    /\ UNCHANGED <<hostvars, parts, todo, sample, pass, curvevars>>

\* the slot of pixel i as a reader finds it: the last value written, or the
\* 0 the vector was created with
SlotValue(i) ==
    IF pass.writes[i] = << >> THEN 0 ELSE pass.writes[i][Len(pass.writes[i])].value

RECURSIVE SlotValues(_)
SlotValues(n) == IF n = 0 THEN << >> ELSE Append(SlotValues(n - 1), SlotValue(n - 1))

\* reduce has returned final_acc, which ends the statement of the iteration
\* pass; the colour pass follows and reads self.iteration_counts[px_index]
\* for every pixel
ParColour ==
    /\ todo = {}
    /\ Len(accs) = 1
    /\ pass.read = << >>
    /\ pass' = [pass EXCEPT !.read = SlotValues(frame.x * frame.y)]
    /\ UNCHANGED <<hostvars, parts, todo, accs, sample, curvevars>>

NextPar ==
    \/ ParSplit
    \/ \E w \in 1..MaxWorkers, i \in 0..(frame.x * frame.y - 1) : ParFold(w, i)
    \/ \E w1 \in 1..MaxWorkers, w2 \in 1..MaxWorkers : ParReduce(w1, w2)
    \/ \E w \in 1..MaxWorkers : ParReduceIdentity(w)
    \/ ParColour

SpecPar == InitPar /\ [][NextPar]_vars

\* ------------------------------------------------------------------------
\* Navigation alone.  compute_drawables writes neither box_center nor
\* box_size nor the frame, so the ViewBox of the next frame depends on the
\* zoom, reset and resize events alone; the frames between them are left
\* out, which lets the zoom go as deep as MaxNavEvents key presses.
\* ------------------------------------------------------------------------
NavKeys == {"Z", "X", "R"}

\* EventHandler::key_up_event for a zoom or reset key; the zoom-out key is
\* pressed only while the box is no wider than the default span
NavKey(key) ==
    /\ events < MaxNavEvents
    /\ key = "X" => mandel.box_size.x <= DEFAULT_SPAN
    /\ events' = events + 1
    /\ mandel' = AdjustForKeyUp(mandel, key)
    /\ call' = Called("adjust_for_key_up")
    /\ UNCHANGED <<pc, panic, frame, drawn, parvars>>

\* the window is resized: the frame becomes w x h pixels
NavResize(w, h) ==
    /\ events < MaxNavEvents
    /\ frame # Vec(w, h)
    /\ events' = events + 1
    /\ frame' = Vec(w, h)
    /\ call' = Called("resize")
    /\ UNCHANGED <<mandel, pc, panic, drawn, parvars>>

NextNav ==
    \/ \E key \in NavKeys : NavKey(key)
    \/ \E w \in Widths, h \in Heights : NavResize(w, h)

SpecNav == Init /\ [][NextNav]_vars

\* ------------------------------------------------------------------------
\* The dwell alone: frames in which a dwell button or "Aller" is clicked or
\* nothing is, and the reset key between frames, which lets max_iterations
\* be halved as often as MaxDwellEvents allows.
\* ------------------------------------------------------------------------
DwellClicks == { <<"none">>, <<"dwell-">>, <<"dwell+">>, <<"aller">> }

\* EventHandler::update: update_ui with a dwell button, "Aller" or nothing
\* clicked
DwellUpdate(click) ==
    /\ panic = "none"
    /\ pc = "events"
    /\ click # <<"none">> => events < MaxDwellEvents
    /\ click = <<"dwell+">> => mandel.max_iterations * 2 <= MaxDwell
    /\ events' = IF click = <<"none">> THEN events ELSE events + 1
    /\ call' = Called("update_ui")
    /\ IF UpdateUiPanics(mandel)
       THEN panic' = "update_ui" /\ UNCHANGED <<mandel, pc>>
       ELSE mandel' = UpdateUi(mandel, click) /\ pc' = "draw" /\ UNCHANGED panic
    /\ UNCHANGED <<frame, drawn, parvars>>

\* EventHandler::key_up_event for the reset key
DwellKey ==
    /\ panic = "none"
    /\ pc = "events"
    /\ events < MaxDwellEvents
    /\ events' = events + 1
    /\ mandel' = AdjustForKeyUp(mandel, "R")
    /\ call' = Called("adjust_for_key_up")
    /\ UNCHANGED <<pc, panic, frame, drawn, parvars>>

NextDwell ==
    \/ \E click \in DwellClicks : DwellUpdate(click)
    \/ Draw
    \/ DwellKey

SpecDwell == Init /\ [][NextDwell]_vars

\* ------------------------------------------------------------------------
\* The iterator alone: one MandelIterator with the escape radius of the
\* MandelbrotSet is given one plane point, and iter_to_divergence and
\* iteration_points are called on it, in either order.
\* ------------------------------------------------------------------------
\* the sampled points: a grid of multiples of 1/32 around the main cardioid
\* and the period-2 bulb, and the point mandel_point_from_index returns for
\* a ViewBox whose box_center is NaN
SamplePoints ==
    { Vec(a * (Scale \div 32), b * (Scale \div 32)) :
          a \in (0 - 2 * MaxGrid)..(MaxGrid - 8), b \in (0 - MaxGrid)..MaxGrid }
    \cup { Vec(NaN, NaN) }

\* the sampled depths: none, the shortest loops, and the deepest dwell
SampleDepths == {0, 2, MaxDwell}

InitIter ==
    /\ HostInit
    /\ parts = << >>
    /\ todo = {}
    /\ accs = << >>
    /\ pass = << >>
    /\ loop = << >>
    /\ harmo = << >>
    /\ dejong = << >>
    /\ colorpick = << >>
    /\ sample \in { [ max_iterations |-> d, c |-> c, result |-> << >>, points |-> << >> ] :
                        d \in SampleDepths, c \in SamplePoints }

\* iterator.iter_to_divergence(c)
IterCall ==
    /\ sample.result = << >>
    /\ sample' = [sample EXCEPT !.result =
                      <<IterToDivergence(sample.max_iterations, mandel.escape_radius2, sample.c)>>]
    /\ UNCHANGED <<hostvars, parts, todo, accs, pass, curvevars>>

\* iterator.iteration_points(c)
TracePoints ==
    /\ sample.points = << >>
    /\ sample' = [sample EXCEPT !.points =
                      IterationPoints(sample.max_iterations, mandel.escape_radius2, sample.c)]
    /\ UNCHANGED <<hostvars, parts, todo, accs, pass, curvevars>>

NextIter ==
    \/ IterCall
    \/ TracePoints

SpecIter == InitIter /\ [][NextIter]_vars

\* ------------------------------------------------------------------------
\* Harmonograph (harmonograph_curve.rs).  f32 values are kept in units of
\* 1 / Scale, as the f64 values are.  pendulums[k] is the code's
\* pendulums[k]; values is the HashMap<Axis, f32>, a function on the axes
\* that have sent an event.
\* ------------------------------------------------------------------------
PAPERX == 0
PAPERY == 1
PENX == 2
PENY == 3
AMP == 0
FREQ == 1
PHASE == 2
DECAY == 3
START_COLOR == 4
END_COLOR == 5
EPSILON == Dec(1, 100)
PI == Dec(314159, 100000)

\* the axes of a gamepad: the four the curves map, and one more
Axes == {"LeftStickX", "LeftStickY", "RightStickX", "RightStickY", "LeftZ"}
\* an axis value: the ends of the range, the centre, a value at rest inside
\* the dead zone of EPSILON, and a deflection
AxisValues == {0 - Dec(1, 1), 0, Dec(5, 1000), Dec(1, 2), Dec(1, 1)}
PadButtons == {"DPadLeft", "DPadRight", "LeftTrigger", "RightTrigger",
               "South", "East", "North"}

\* HashMap::new and HashMap::insert
NoValues == [axis \in {} |-> 0]
Insert(values, axis, value) ==
    [k \in DOMAIN values \cup {axis} |-> IF k = axis THEN value ELSE values[k]]

\* self.values.values().all(|v| v.abs() < EPSILON)
AllZeroes(values) == \A k \in DOMAIN values : Abs(values[k]) < EPSILON

\* Pendulum::new
PendulumNew(amp, freq, phase, decay) ==
    [amp |-> amp, freq |-> freq, phase |-> phase, decay |-> decay]

\* Harmonograph::new; this version of ColorPicker::new takes the HSV alone
HarmonographNew ==
    [ pendulums |->
          [k \in 0..3 |->
              CASE k = PAPERX -> PendulumNew(Dec(25, 100), Dec(75, 10), 0, Dec(4, 10000))
                [] k = PAPERY -> PendulumNew(Dec(25, 100), Dec(4, 1), 0, Dec(4, 10000))
                [] k = PENX -> PendulumNew(Dec(75, 100), Dec(1, 1), 0, Dec(4, 10000))
                [] k = PENY -> PendulumNew(Dec(75, 100), Dec(2, 1), 0, Dec(4, 10000))],
      displayed_param |-> AMP,
      pinning_values |-> FALSE,
      values |-> NoValues,
      start_color_picker |->
          [current_pick |-> HSVNew(Dec(180, 1), Dec(75, 100), Dec(75, 100))],
      end_color_picker |->
          [current_pick |-> HSVNew(Dec(60, 1), Dec(75, 100), Dec(75, 100))] ]

\* Harmonograph::normalize and utils::normalize
Normalize(value, upper) == MulFin(RoundDiv(value + Dec(1, 1), 2), upper)

\* ColorPicker::adjust_hue and adjust_saturation
AdjustHue(picker, hue) == [picker EXCEPT !.current_pick.hue = hue]
AdjustSaturation(picker, saturation) ==
    [picker EXCEPT !.current_pick.saturation = saturation]

\* ColorPicker::adjust_for_axis, and adjust_start_color_for_axis and
\* adjust_end_color_for_axis of the Harmonograph, which repeat it
PickerAdjustForAxis(picker, axis, value) ==
    CASE axis = "LeftStickX" -> AdjustHue(picker, Normalize(value, Dec(3599, 10)))
      [] axis = "LeftStickY" ->
             AdjustSaturation(picker, Dec(1, 1) - Normalize(value, Dec(1, 1)))
      [] OTHER -> picker

\* ColorPicker::adjust_for_button
PickerAdjustForButton(picker, btn) ==
    CASE btn = "South" -> IncrValue(picker, 0 - Dec(25, 100))
      [] btn = "East" -> IncrValue(picker, Dec(25, 100))
      [] OTHER -> picker

\* adjust_amp_for_axis setting the amplitude of the paper pendulum alone:
\* the fault C23 is tested against
AdjustAmpPaperOnly(h, axis, value) ==
    LET new_value == Normalize(value, Dec(1, 1))
    IN  CASE axis = "LeftStickY" ->
                 [h EXCEPT !.pendulums[PAPERY].amp = new_value]
          [] axis = "RightStickX" ->
                 [h EXCEPT !.pendulums[PAPERX].amp = new_value]
          [] OTHER -> h

\* Harmonograph::adjust_amp_for_axis
AdjustAmpForAxis(h, axis, value) ==
    LET new_value == Normalize(value, Dec(1, 1))
    IN  CASE axis = "LeftStickY" ->
                 [h EXCEPT !.pendulums[PAPERY].amp = new_value,
                           !.pendulums[PENY].amp = Dec(1, 1) - new_value]
          [] axis = "RightStickX" ->
                 [h EXCEPT !.pendulums[PAPERX].amp = new_value,
                           !.pendulums[PENX].amp = Dec(1, 1) - new_value]
          [] OTHER -> h

\* axis_to_pendulum; an axis outside it makes get(&axis).unwrap() panic
AxisToPendulum(axis) ==
    CASE axis = "LeftStickX" -> PAPERX
      [] axis = "LeftStickY" -> PAPERY
      [] axis = "RightStickX" -> PENX
      [] axis = "RightStickY" -> PENY

Unmapped(axis) == axis \notin {"LeftStickX", "LeftStickY", "RightStickX", "RightStickY"}

\* Harmonograph::adjust_freq_for_axis, adjust_phase_for_axis and
\* adjust_decay_for_axis
AdjustFreqForAxis(h, axis, value) ==
    [h EXCEPT !.pendulums[AxisToPendulum(axis)].freq =
                  (RoundDiv(Normalize(value, Dec(20, 1)), Scale) * Scale) \div 2]
AdjustPhaseForAxis(h, axis, value) ==
    [h EXCEPT !.pendulums[AxisToPendulum(axis)].phase = Normalize(value, PI \div 2)]
AdjustDecayForAxis(h, axis, value) ==
    [h EXCEPT !.pendulums[AxisToPendulum(axis)].decay = Normalize(value, Dec(2, 1000))]

\* Harmonograph::adjust_for_button
HarmonographAdjustForButton(h, btn) ==
    CASE btn = "DPadLeft" ->
             IF h.displayed_param > 0 THEN [h EXCEPT !.displayed_param = @ - 1] ELSE h
      [] btn = "DPadRight" ->
             IF h.displayed_param < 5 THEN [h EXCEPT !.displayed_param = @ + 1] ELSE h
      [] btn \in {"LeftTrigger", "RightTrigger"} -> [h EXCEPT !.pinning_values = TRUE]
      [] btn \in {"South", "East"} /\ h.displayed_param = START_COLOR ->
             [h EXCEPT !.start_color_picker = PickerAdjustForButton(@, btn)]
      [] btn \in {"South", "East"} /\ h.displayed_param = END_COLOR ->
             [h EXCEPT !.end_color_picker = PickerAdjustForButton(@, btn)]
      [] OTHER -> h

\* Harmonograph::adjust_for_axis panics: the axis has no pendulum
HarmonographAxisPanics(h, axis) ==
    /\ ~h.pinning_values
    /\ h.displayed_param \in {FREQ, PHASE, DECAY}
    /\ Unmapped(axis)

\* Harmonograph::adjust_for_axis
HarmonographAdjustForAxis(h0, axis, value) ==
    LET h == [h0 EXCEPT !.values = Insert(@, axis, value)]
    IN  IF h.pinning_values
        THEN IF AllZeroes(h.values) THEN [h EXCEPT !.pinning_values = FALSE] ELSE h
        ELSE CASE h.displayed_param = AMP -> AdjustAmpForAxis(h, axis, value)
               [] h.displayed_param = FREQ -> AdjustFreqForAxis(h, axis, value)
               [] h.displayed_param = PHASE -> AdjustPhaseForAxis(h, axis, value)
               [] h.displayed_param = DECAY -> AdjustDecayForAxis(h, axis, value)
               [] h.displayed_param = START_COLOR ->
                      [h EXCEPT !.start_color_picker = PickerAdjustForAxis(@, axis, value)]
               [] h.displayed_param = END_COLOR ->
                      [h EXCEPT !.end_color_picker = PickerAdjustForAxis(@, axis, value)]

\* The Harmonograph is the selected curve and receives the gamepad events.
\* harmo holds the curve, the events delivered and whether a call panicked.
InitHarmo ==
    /\ HostInit
    /\ parts = << >>
    /\ todo = {}
    /\ accs = << >>
    /\ sample = << >>
    /\ pass = << >>
    /\ loop = << >>
    /\ dejong = << >>
    /\ colorpick = << >>
    /\ harmo = [curve |-> HarmonographNew, events |-> 0, panic |-> FALSE]

\* gamepad_button_down_event for a button the host forwards
HarmoButton(btn) ==
    /\ harmo.events < MaxPadEvents
    /\ ~harmo.panic
    /\ harmo' = [harmo EXCEPT !.curve = HarmonographAdjustForButton(@, btn),
                              !.events = @ + 1]
    /\ UNCHANGED <<hostvars, parts, todo, accs, sample, pass, loop, dejong, colorpick>>

\* gamepad_axis_event
HarmoAxis(axis, value) ==
    /\ harmo.events < MaxPadEvents
    /\ ~harmo.panic
    /\ harmo' = IF HarmonographAxisPanics(harmo.curve, axis)
                THEN [harmo EXCEPT !.panic = TRUE, !.events = @ + 1]
                ELSE [harmo EXCEPT !.curve = HarmonographAdjustForAxis(@, axis, value),
                                   !.events = @ + 1]
    /\ UNCHANGED <<hostvars, parts, todo, accs, sample, pass, loop, dejong, colorpick>>

NextHarmo ==
    \/ \E btn \in PadButtons : HarmoButton(btn)
    \/ \E axis \in Axes, value \in AxisValues : HarmoAxis(axis, value)

SpecHarmo == InitHarmo /\ [][NextHarmo]_vars

\* ------------------------------------------------------------------------
\* DeJongAttractor (dejong_curve.rs)
\* ------------------------------------------------------------------------
DEFAULT_ITERATIONS == 80000

\* nb_iter is a u32: from DEFAULT_ITERATIONS it takes sixteen doublings to
\* leave the range, more than MaxPadEvents allows, so `*= 2` is the plain
\* product here.
\* DeJongAttractor::new
DeJongAttractorNew ==
    [ a |-> Dec(14, 10), b |-> 0 - Dec(23, 10), c |-> Dec(24, 10), d |-> 0 - Dec(21, 10),
      nb_iter |-> DEFAULT_ITERATIONS,
      pinning_values |-> FALSE,
      values |-> NoValues ]

\* DeJongAttractor::normalize
DeJongNormalize(value, lower, upper) ==
    lower + MulFin(RoundDiv(value + Dec(1, 1), 2), upper - lower)

\* DeJongAttractor::adjust_param_for_axis
AdjustParamForAxis(dj, axis, value) ==
    LET new_value == DeJongNormalize(value, 0 - PI, PI)
    IN  CASE axis = "LeftStickX" -> [dj EXCEPT !.a = new_value]
          [] axis = "LeftStickY" -> [dj EXCEPT !.b = new_value]
          [] axis = "RightStickX" -> [dj EXCEPT !.c = new_value]
          [] axis = "RightStickY" -> [dj EXCEPT !.d = new_value]
          [] OTHER -> dj

\* DeJongAttractor::adjust_ab and adjust_cd, called by update_ui while the
\* pointer is on one of the two pads
AdjustAb(dj, params) == [dj EXCEPT !.a = params.x, !.b = 0 - params.y]
AdjustCd(dj, params) == [dj EXCEPT !.c = params.x, !.d = 0 - params.y]

\* the buttons "-", "+" and "r" of update_ui
DeJongUpdateUiButton(dj, label) ==
    CASE label = "-" -> [dj EXCEPT !.nb_iter = @ \div 2]
      [] label = "+" -> [dj EXCEPT !.nb_iter = @ * 2]
      [] label = "r" -> [dj EXCEPT !.nb_iter = DEFAULT_ITERATIONS]

\* DeJongAttractor::adjust_for_button
DeJongAdjustForButton(dj, btn) ==
    CASE btn \in {"LeftTrigger", "RightTrigger"} -> [dj EXCEPT !.pinning_values = TRUE]
      [] btn = "North" -> [dj EXCEPT !.nb_iter = DEFAULT_ITERATIONS]
      [] btn = "South" -> [dj EXCEPT !.nb_iter = @ \div 2]
      [] btn = "East" -> [dj EXCEPT !.nb_iter = @ * 2]
      [] OTHER -> dj

\* adjust_for_axis adjusting the parameter at the event that clears the
\* pinning: the fault C30 is tested against
DeJongAdjustOnRelease(dj0, axis, value) ==
    LET dj == [dj0 EXCEPT !.values = Insert(@, axis, value)]
    IN  IF dj.pinning_values
        THEN IF AllZeroes(dj.values)
             THEN AdjustParamForAxis([dj EXCEPT !.pinning_values = FALSE], axis, value)
             ELSE dj
        ELSE AdjustParamForAxis(dj, axis, value)

\* DeJongAttractor::adjust_for_axis
DeJongAdjustForAxis(dj0, axis, value) ==
    LET dj == [dj0 EXCEPT !.values = Insert(@, axis, value)]
    IN  IF dj.pinning_values
        THEN IF AllZeroes(dj.values) THEN [dj EXCEPT !.pinning_values = FALSE] ELSE dj
        ELSE AdjustParamForAxis(dj, axis, value)

\* The De Jong attractor is the selected curve.  dejong holds the curve,
\* the last event delivered to it and the number of events.
InitDeJong ==
    /\ HostInit
    /\ parts = << >>
    /\ todo = {}
    /\ accs = << >>
    /\ sample = << >>
    /\ pass = << >>
    /\ loop = << >>
    /\ harmo = << >>
    /\ dejong = [curve |-> DeJongAttractorNew,
                 last |-> [op |-> "none"],
                 log |-> << >>]
    /\ colorpick = << >>

\* gamepad_button_down_event
DeJongButton(btn) ==
    /\ Len(dejong.log) < MaxPadEvents
    /\ dejong' = [curve |-> DeJongAdjustForButton(dejong.curve, btn),
                  last |-> [op |-> "button", btn |-> btn],
                  log |-> Append(dejong.log, "button")]
    /\ UNCHANGED <<hostvars, parts, todo, accs, sample, pass, loop, harmo, colorpick>>

\* gamepad_axis_event
DeJongAxis(axis, value) ==
    /\ Len(dejong.log) < MaxPadEvents
    /\ dejong' = [curve |-> DeJongAdjustForAxis(dejong.curve, axis, value),
                  last |-> [op |-> "axis", axis |-> axis, value |-> value],
                  log |-> Append(dejong.log, "axis")]
    /\ UNCHANGED <<hostvars, parts, todo, accs, sample, pass, loop, harmo, colorpick>>

\* the values a pad of update_ui hands to adjust_ab and adjust_cd: clamped
\* to -PI..PI
PadValues == {0 - PI, 0, PI}

\* update_ui with the pointer on the pad of a and b, or of c and d
DeJongPad(name1, x, y) ==
    /\ Len(dejong.log) < MaxPadEvents
    /\ dejong' = [curve |-> IF name1 = "a"
                            THEN AdjustAb(dejong.curve, Vec(x, y))
                            ELSE AdjustCd(dejong.curve, Vec(x, y)),
                  last |-> [op |-> "pad", name1 |-> name1],
                  log |-> Append(dejong.log, "pad")]
    /\ UNCHANGED <<hostvars, parts, todo, accs, sample, pass, loop, harmo, colorpick>>

\* update_ui with one of the iteration buttons clicked
DeJongUiButton(label) ==
    /\ Len(dejong.log) < MaxPadEvents
    /\ dejong' = [curve |-> DeJongUpdateUiButton(dejong.curve, label),
                  last |-> [op |-> "ui", label |-> label],
                  log |-> Append(dejong.log, "ui")]
    /\ UNCHANGED <<hostvars, parts, todo, accs, sample, pass, loop, harmo, colorpick>>

NextDeJong ==
    \/ \E btn \in PadButtons : DeJongButton(btn)
    \/ \E axis \in Axes, value \in AxisValues : DeJongAxis(axis, value)
    \/ \E name1 \in {"a", "c"}, x \in PadValues, y \in PadValues : DeJongPad(name1, x, y)
    \/ \E label \in {"-", "+", "r"} : DeJongUiButton(label)

SpecDeJong == InitDeJong /\ [][NextDeJong]_vars

\* ------------------------------------------------------------------------
\* One ColorPicker on its own: the "Out" picker of the MandelbrotSet, shown
\* in a view of 512 x 512 or 1024 x 512 pixels right of the side panel.  A
\* frame reads its colour and, while it is displayed, sets its view; the
\* host hands it clicks, keys, axis values and buttons.
\* ------------------------------------------------------------------------
PickerFrames == {Vec(512, 512), Vec(1024, 512)}
\* f32 mouse positions, in half pixels: for the 512 x 512 view the colour
\* space spans x from 281.5 to 473.5 and y from 128 to 320; for the
\* 1024 x 512 view x from 537.5 to 729.5
ClickXs == {563, 755, 947, 1075, 1459, 1600}
ClickYs == {256, 448, 640, 800}
PickerKeys == {"Up", "Down", "Space"}

InitPicker ==
    /\ HostInit
    /\ parts = << >>
    /\ todo = {}
    /\ accs = << >>
    /\ sample = << >>
    /\ pass = << >>
    /\ loop = << >>
    /\ harmo = << >>
    /\ dejong = << >>
    /\ colorpick = [p |-> MandelbrotSetNew.out_color_picker, events |-> 0, panic |-> FALSE]

\* one frame with the picker displayed: update_ui calls color32(), and
\* compute_drawables calls color() and then set_view(size, dest)
PickerFrame(fr) ==
    /\ ~colorpick.panic
    /\ colorpick.events < MaxPickerEvents
    /\ colorpick' = IF PickerColorPanics(colorpick.p)
                 THEN [colorpick EXCEPT !.panic = TRUE, !.events = @ + 1]
                 ELSE [colorpick EXCEPT !.p = SetView(@, FrameSize(fr.x, fr.y),
                                                     FrameDest(fr.x, fr.y)),
                                     !.events = @ + 1]
    /\ UNCHANGED <<hostvars, parts, todo, accs, sample, pass, loop, harmo, dejong>>

\* adjust_for_mouse_button_up handing the click to the displayed picker; the
\* frame that displayed the picker has set its view
PickerClick(button, x, y) ==
    /\ ~colorpick.panic
    /\ colorpick.events < MaxPickerEvents
    /\ colorpick.p.last_size # 0
    /\ colorpick' = [colorpick EXCEPT !.p = PickerAdjustForClick(@, button, x, y),
                                !.events = @ + 1]
    /\ UNCHANGED <<hostvars, parts, todo, accs, sample, pass, loop, harmo, dejong>>

\* ColorPicker::adjust_for_key
PickerKey(key) ==
    /\ ~colorpick.panic
    /\ colorpick.events < MaxPickerEvents
    /\ colorpick' = [colorpick EXCEPT !.p = PickerAdjustForKey(@, key), !.events = @ + 1]
    /\ UNCHANGED <<hostvars, parts, todo, accs, sample, pass, loop, harmo, dejong>>

\* ColorPicker::adjust_for_axis
PickerAxis(axis, value) ==
    /\ ~colorpick.panic
    /\ colorpick.events < MaxPickerEvents
    /\ colorpick' = [colorpick EXCEPT !.p = PickerAdjustForAxis(@, axis, value),
                                !.events = @ + 1]
    /\ UNCHANGED <<hostvars, parts, todo, accs, sample, pass, loop, harmo, dejong>>

\* ColorPicker::adjust_for_button
PickerButton(btn) ==
    /\ ~colorpick.panic
    /\ colorpick.events < MaxPickerEvents
    /\ colorpick' = [colorpick EXCEPT !.p = PickerAdjustForButton(@, btn), !.events = @ + 1]
    /\ UNCHANGED <<hostvars, parts, todo, accs, sample, pass, loop, harmo, dejong>>

NextPicker ==
    \/ \E fr \in PickerFrames : PickerFrame(fr)
    \/ \E button \in Buttons, x \in ClickXs, y \in ClickYs : PickerClick(button, x, y)
    \/ \E key \in PickerKeys : PickerKey(key)
    \/ \E axis \in Axes, value \in AxisValues : PickerAxis(axis, value)
    \/ \E btn \in PadButtons : PickerButton(btn)

SpecPicker == InitPicker /\ [][NextPicker]_vars

\* ------------------------------------------------------------------------
\* The `while` of iter_to_divergence, one evaluation of its condition at a
\* time, for a point that passed both shortcut tests.  Beside the locals
\* the state counts the checkpoint refreshes and keeps, for the last one,
\* the step it was made in, the steps since the one before, the
\* max_periodicity in force when it was made and the point it recorded.
\* ------------------------------------------------------------------------
LoopPoints ==
    { c \in SamplePoints :
          /\ IsFin(c.x) /\ IsFin(c.y)
          /\ ~IsKnownMember(c)
          /\ ~IsPartOfBulbOrMainCardioid(c, MulFin(c.y, c.y)) }

InitLoop ==
    /\ HostInit
    /\ parts = << >>
    /\ todo = {}
    /\ accs = << >>
    /\ sample = << >>
    /\ pass = << >>
    /\ harmo = << >>
    /\ dejong = << >>
    /\ colorpick = << >>
    /\ loop \in { [ max_iterations |-> MaxDwell, c |-> c, s |-> IterStart(c),
                     refreshes |-> 0, last |-> 0, gap |-> 0, period |-> 0,
                     mark |-> Vec(0, 0) ] : c \in LoopPoints }

\* the step from s to s2 went through the refresh of the checkpoint, which
\* restarts iterations_since_periodicity_refresh: it is 1 after the step
\* although it was not 0 before
Refreshed(s, s2) == s2.result = << >> /\ s2.since = 1 /\ s.since # 0

\* one evaluation of the `while` condition and what follows it
LoopStep ==
    /\ loop.s.result = << >>
    /\ LET s2 == IterStep(loop.max_iterations, mandel.escape_radius2, loop.c, loop.s)
       IN  loop' = IF Refreshed(loop.s, s2)
                   THEN [loop EXCEPT !.s = s2,
                                     !.refreshes = @ + 1,
                                     !.last = s2.i,
                                     !.gap = s2.i - loop.last,
                                     !.period = loop.s.max_periodicity,
                                     !.mark = Vec(s2.x, s2.y)]
                   ELSE [loop EXCEPT !.s = s2]
    /\ UNCHANGED <<hostvars, parts, todo, accs, sample, pass, harmo, dejong, colorpick>>

NextLoop == LoopStep

SpecLoop == InitLoop /\ [][NextLoop]_vars

\* ------------------------------------------------------------------------
\* Properties of the render cache
\* ------------------------------------------------------------------------
\* the arguments LissajouApp::draw passes for the current frame
DrawDest == FrameDest(frame.x, frame.y)
DrawSize == FrameSize(frame.x, frame.y)
DrawViewBox ==
    ViewBoxFromCenterSize(DrawDest, DrawSize, mandel.box_center, mandel.box_size)
\* compute_drawables called in the current state for the current frame
Recompute == ComputeDrawables(mandel, DrawDest, DrawSize)
\* a compute_drawables call has just returned
JustDrawn == call.op = "compute_drawables" /\ panic = "none"
\* this step is a compute_drawables call that returns
DrawStep == panic = "none" /\ pc = "draw" /\ pc' = "events"

\* what the previous compute_drawables call was given; before the first
\* call, what MandelbrotSet::new recorded (ViewBox::zero(), 0, black)
LastFrame == IF drawn = << >> THEN Vec(0, 0) ELSE drawn[1].frame
LastCenter == IF drawn = << >> THEN Vec(0, 0) ELSE drawn[1].box_center
LastSize == IF drawn = << >> THEN Vec(0, 0) ELSE drawn[1].box_size
LastMax == IF drawn = << >> THEN 0 ELSE drawn[1].max_iterations
LastColors == IF drawn = << >> THEN <<BLACK, BLACK>> ELSE drawn[1].colors

\* the escape-time results of all pixels of the current frame, computed afresh
FreshResults == MapResults(mandel, DrawViewBox, frame.x * frame.y)
\* the histogram of a list of results, counted from nothing
HistogramOf(results, max_iterations) ==
    [k \in 1..max_iterations |->
        Cardinality({i \in 1..Len(results) : results[i].iterations = k - 1})]

\* the sum of q[lo..hi], split in halves
RECURSIVE SumRange(_, _, _)
SumRange(q, lo, hi) ==
    IF lo > hi THEN 0
    ELSE IF lo = hi THEN q[lo]
    ELSE SumRange(q, lo, (lo + hi) \div 2) + SumRange(q, (lo + hi) \div 2 + 1, hi)

SumSeq(q) == SumRange(q, 1, Len(q))

\* nothing that compute_drawables reads for its dirty checks was written
\* since its last call: same frame, box_center, box_size, max_iterations
\* and picker colours
Unmutated ==
    /\ drawn # << >>
    /\ panic = "none"
    /\ frame = drawn[1].frame
    /\ mandel.box_center = drawn[1].box_center
    /\ mandel.box_size = drawn[1].box_size
    /\ mandel.max_iterations = drawn[1].max_iterations
    /\ PickedColors(mandel) = drawn[1].colors

\* C1: a second compute_drawables call with the same destination and size,
\* with box_center, box_size, max_iterations and both picker colours not
\* written in between, runs neither the iteration pass nor the colour pass
\* and leaves iteration_counts, histogram and pixels as they were.
C1_Idempotent ==
    Unmutated =>
        LET r == Recompute
        IN  /\ ~r.ran.iterations
            /\ ~r.ran.image
            /\ r.m.iteration_counts = mandel.iteration_counts
            /\ r.m.histogram = mandel.histogram
            /\ r.m.pixels = mandel.pixels

\* the comparisons of the dirty checks find only a picker colour changed
\* since the last compute_drawables call (== of f64, so a NaN never compares
\* equal)
OnlyColorChanged ==
    /\ drawn # << >>
    /\ panic = "none"
    /\ ~ComputeDrawablesPanics(mandel)
    /\ frame = drawn[1].frame
    /\ ~VecNe(mandel.box_center, drawn[1].box_center)
    /\ ~VecNe(mandel.box_size, drawn[1].box_size)
    /\ mandel.max_iterations = drawn[1].max_iterations
    /\ PickedColors(mandel) # drawn[1].colors

\* the bytes the colour ramp gives pixel px (1-based) of m: blue, green,
\* red, and the alpha byte set when the buffer was allocated
RampBytes(m, px) ==
    LET out == PickerColor(m.out_color_picker)
        almost_in == PickerColor(m.almost_in_color_picker)
        rgb == PixelColor(m.iteration_counts[px], m.max_iterations,
                          <<out, WHITE, almost_in, DARK_GREY, out>>)
    IN  <<rgb[3], rgb[2], rgb[1], 255>>

\* the colour-only recompute: no iteration pass, colour pass run
ColorOnlyRun(r) ==
    /\ r.ran = [cache |-> FALSE, iterations |-> FALSE, image |-> TRUE]
    /\ r.m.iteration_counts = mandel.iteration_counts
    /\ r.m.histogram = mandel.histogram

\* C2 as stated: when only a picked colour changed since the previous
\* compute_drawables call, the next call skips the iteration pass
\* (iteration_counts and histogram unchanged) and re-runs the colour
\* mapping, so that the pixel buffer changes.
C2_PixelsChange ==
    OnlyColorChanged =>
        LET r == Recompute
        IN  ColorOnlyRun(r) /\ r.m.pixels # mandel.pixels

\* C2 amended: when only a picked colour changed since the previous
\* compute_drawables call, the next call skips the iteration pass
\* (iteration_counts and histogram unchanged) and re-runs the colour
\* mapping: every pixel gets the bytes of the ramp built from the new
\* colours (which may be the bytes it had).
C2_ColorOnly ==
    OnlyColorChanged =>
        LET r == Recompute
        IN  /\ ColorOnlyRun(r)
            /\ \A px \in 1..Len(mandel.iteration_counts) :
                  SubSeq(r.m.pixels, 4 * px - 3, 4 * px) = RampBytes(r.m, px)

\* C2 witness: a compute_drawables call ran the colour pass alone
C2_Witness ==
    /\ JustDrawn
    /\ call.ran = [cache |-> FALSE, iterations |-> FALSE, image |-> TRUE]

\* C3: in every compute_drawables call the iteration pass runs if and only
\* if the rounded screen dimensions differ from the last frame's, or
\* box_center, box_size or max_iterations differs (!=) from the one last
\* recorded; when it runs, every entry of iteration_counts and the whole
\* histogram are replaced by freshly computed values.
C3_IterationDirtyIff ==
    [][DrawStep =>
        LET dirty == \/ frame # LastFrame
                     \/ VecNe(mandel.box_center, LastCenter)
                     \/ VecNe(mandel.box_size, LastSize)
                     \/ mandel.max_iterations # LastMax
            res == FreshResults
        IN  /\ call'.ran.iterations <=> dirty
            /\ call'.ran.iterations =>
                  /\ mandel'.iteration_counts =
                        [i \in 1..Len(res) |-> IterCountOf(res[i])]
                  /\ mandel'.histogram = HistogramOf(res, mandel.max_iterations)
    ]_vars

\* C3 witness: the iteration pass ran on a frame whose size did not change
C3_Witness == JustDrawn /\ call.ran.iterations /\ ~call.ran.cache

\* the three dirty conditions for a frame of w x h pixels are layered
LayeredFor(w, h) ==
    LET vb == ViewBoxFromCenterSize(FrameDest(w, h), FrameSize(w, h),
                                    mandel.box_center, mandel.box_size)
    IN  /\ NeedRecreatePixelCache(mandel, vb) => NeedRecomputeIterations(mandel, vb)
        /\ NeedRecomputeIterations(mandel, vb) => NeedRecomputeImage(mandel, vb)

\* C4: in every state pixel-cache dirty implies iteration dirty and
\* iteration dirty implies image dirty, for every frame size, and the stages
\* a call ran are layered alike; a compute_drawables call runs the colour
\* pass if and only if it ran the iteration pass or a picked colour differs
\* from the colours last recorded.
C4_Layered ==
    /\ [](/\ \A w \in Widths, h \in Heights : LayeredFor(w, h)
          /\ call.ran.cache => call.ran.iterations
          /\ call.ran.iterations => call.ran.image)
    /\ [][DrawStep =>
            (call'.ran.image <=>
                (call'.ran.iterations \/ PickedColors(mandel) # LastColors))]_vars

\* C4 witness: before a compute_drawables call, only the image is dirty
C4_Witness ==
    /\ pc = "draw"
    /\ panic = "none"
    /\ ~NeedRecomputeIterations(mandel, DrawViewBox)
    /\ NeedRecomputeImage(mandel, DrawViewBox)

\* C5: after every compute_drawables call iteration_counts has width *
\* height entries and pixels four times as many, for the rounded dimensions
\* of that call; the call reallocates the buffers exactly when those
\* dimensions differ from the previous frame's.
C5_BufferLengths ==
    /\ [](JustDrawn =>
            /\ Len(mandel.iteration_counts) = frame.x * frame.y
            /\ Len(mandel.pixels) = 4 * frame.x * frame.y)
    /\ [][DrawStep => (call'.ran.cache <=> frame # LastFrame)]_vars

\* C5 witness: a call after a resize reallocated the buffers
C5_Witness ==
    /\ JustDrawn
    /\ call.ran.cache
    /\ events > 0
    /\ frame # Vec(2, 2)
    /\ Len(mandel.pixels) = 4 * frame.x * frame.y

\* one zoom step from the current state scales box_size by 1 + dir * 0.25,
\* i.e. by (4 + dir) / 4, and leaves box_center and max_iterations alone;
\* each component is the f64 product: the exact product when that is
\* representable, else the representable value nearest to it
ZoomScales(dir) ==
    LET z == AdjustZoom(mandel, dir)
    IN  /\ z.box_size.x = RoundDiv((4 + dir) * mandel.box_size.x, 4)
        /\ z.box_size.y = RoundDiv((4 + dir) * mandel.box_size.y, 4)
        /\ z.box_center = mandel.box_center
        /\ z.max_iterations = mandel.max_iterations

\* the next compute_drawables call after one zoom step finds the iteration
\* pass dirty
ZoomDirty(dir) ==
    LET z == AdjustZoom(mandel, dir)
    IN  NeedRecomputeIterations(z,
            ViewBoxFromCenterSize(DrawDest, DrawSize, z.box_center, z.box_size))

\* C6 as stated: one zoom step multiplies both components of box_size by
\* exactly 1 + dir * 0.25 (as an f64 product) and leaves box_center and
\* max_iterations unchanged; the next compute_drawables call finds the
\* iteration pass dirty.
C6_ZoomAlwaysDirty ==
    (panic = "none" /\ pc = "events") => \A dir \in {0 - 1, 1} : ZoomScales(dir) /\ ZoomDirty(dir)

\* C6 amended: one zoom step multiplies both components of box_size by
\* 1 + dir * 0.25 (the f64 product: exact when representable, else rounded
\* to nearest) and leaves box_center and max_iterations unchanged; the next
\* compute_drawables call finds the iteration pass dirty whenever the zoomed
\* box_size differs from the box_size of the previous compute_drawables
\* call.
C6_ZoomStep ==
    (panic = "none" /\ pc = "events") =>
        \A dir \in {0 - 1, 1} :
            /\ ZoomScales(dir)
            /\ VecNe(AdjustZoom(mandel, dir).box_size, LastSize) => ZoomDirty(dir)

\* C6 witness: after a frame, one zoom-in step was taken and the next
\* compute_drawables call ran the iteration pass for it
C6_Witness ==
    /\ JustDrawn
    /\ call.ran.iterations
    /\ ~call.ran.cache
    /\ 4 * mandel.box_size.x = 3 * DEFAULT_SPAN
    /\ 4 * mandel.box_size.y = 3 * DEFAULT_SPAN

\* box_size after a wheel event of wheel_y_dir, compared with k/4 of now
WheelScales(wheel_y_dir, k) ==
    LET w == AdjustForMouseWheel(mandel, 0, 0, wheel_y_dir)
    IN  /\ 4 * w.box_size.x = k * mandel.box_size.x
        /\ 4 * w.box_size.y = k * mandel.box_size.y

\* C7: adjust_for_mouse_wheel zooms by a signed step: wheel_y_dir >= 0.5
\* and wheel_y_dir <= -0.5 zoom in opposite directions (one scales box_size
\* by 0.75, the other by 1.25), and |wheel_y_dir| < 0.5 leaves box_size
\* unchanged.
C7_WheelSigned ==
    (panic = "none" /\ pc = "events") =>
        /\ \A a \in {ScreenUnit \div 2, ScreenUnit} :
              \/ WheelScales(a, 3) /\ WheelScales(0 - a, 5)
              \/ WheelScales(a, 5) /\ WheelScales(0 - a, 3)
        /\ WheelScales(0, 4)

\* C8: after every iteration pass the histogram has max_iterations entries
\* counted from nothing: entry k is the number of pixels with k iterations,
\* so its sum is the number of pixels whose iteration count is below
\* max_iterations, at most the pixel count, and equal to it exactly when no
\* pixel reached max_iterations.
C8_Histogram ==
    (JustDrawn /\ call.ran.iterations) =>
        LET res == FreshResults
            pixel_count == frame.x * frame.y
            escaped == {i \in 1..Len(res) : res[i].iterations < mandel.max_iterations}
            sum == SumSeq(mandel.histogram)
        IN  /\ Len(mandel.histogram) = mandel.max_iterations
            /\ mandel.histogram = HistogramOf(res, mandel.max_iterations)
            /\ sum = Cardinality(escaped)
            /\ sum <= pixel_count
            /\ sum = pixel_count <=> Cardinality(escaped) = Len(res)

\* C8 witness: an iteration pass counted some pixels and left out others
C8_Witness ==
    /\ JustDrawn
    /\ call.ran.iterations
    /\ SumSeq(mandel.histogram) > 0
    /\ SumSeq(mandel.histogram) < frame.x * frame.y

\* ------------------------------------------------------------------------
\* Properties of the reduction
\* ------------------------------------------------------------------------
\* C9: on partial results of one histogram length combine is associative
\* and commutative in all four fields (histogram, computed_iteration_count,
\* min_smooth, max_smooth), and ParIterResult::new(max_iterations) is its
\* identity on both sides.
C9_CombineAlgebra ==
    parts # << >> =>
        \A i \in 1..3, j \in 1..3, k \in 1..3 :
            LET a == parts.acc[i]
                b == parts.acc[j]
                c == parts.acc[k]
                identity == ParIterResultNew(CombineLen)
            IN  /\ ParIterResultCombine(a, ParIterResultCombine(b, c))
                     = ParIterResultCombine(ParIterResultCombine(a, b), c)
                /\ ParIterResultCombine(a, b) = ParIterResultCombine(b, a)
                /\ ParIterResultCombine(identity, a) = a
                /\ ParIterResultCombine(a, identity) = a

\* C9 witness: three different partial results, none the identity, with
\* different smooth bounds
C9_Witness ==
    /\ parts # << >>
    /\ \A i \in 1..3 : parts.acc[i] # ParIterResultNew(CombineLen)
    /\ parts.acc[1].min_smooth < parts.acc[2].min_smooth
    /\ parts.acc[2].max_smooth < parts.acc[3].max_smooth
    /\ parts.acc[1].histogram # parts.acc[3].histogram

\* the single sequential fold over all pixels of the frame
SequentialFold ==
    FoldAdd(ParIterResultNew(mandel.max_iterations),
            MapResults(mandel, ParViewBox, frame.x * frame.y),
            frame.x * frame.y)

\* C10: for a fixed ViewBox and max_iterations, whatever the partition of
\* the pixels among workers, the number of workers and the order of the
\* reductions, the final histogram and computed_iteration_count are those
\* of a single sequential fold over all pixels.
C10_ParallelDeterminism ==
    (todo = {} /\ Len(accs) = 1) =>
        /\ accs[1].histogram = SequentialFold.histogram
        /\ accs[1].computed_iteration_count = SequentialFold.computed_iteration_count

\* C10 witness: every pixel is folded, by several workers that each counted
\* some escaped pixel, and the accumulators are still to be reduced
C10_Witness ==
    /\ todo = {}
    /\ Len(accs) >= 2
    /\ \A w \in 1..Len(accs) : SumSeq(accs[w].histogram) > 0

\* ------------------------------------------------------------------------
\* Properties of the colour pass and of the returned drawables
\* ------------------------------------------------------------------------
\* the four bytes of pixel px (1-based) in the pixel buffer
PixelBytes(px) == SubSeq(mandel.pixels, 4 * px - 3, 4 * px)
\* the colours of the ramp, as the colour pass builds them
RampOf(m) ==
    <<PickerColor(m.out_color_picker), WHITE, PickerColor(m.almost_in_color_picker),
      DARK_GREY, PickerColor(m.out_color_picker)>>

\* C11: after a colour pass, every pixel whose stored iteration count is at
\* least max_iterations is black (blue, green, red = 0), whatever the picked
\* colours; every pixel whose stored count is below max_iterations has the
\* bytes of the colour ramp at its count.
C11_BlackInside ==
    (JustDrawn /\ call.ran.image) =>
        \A px \in 1..Len(mandel.iteration_counts) :
            LET count == mandel.iteration_counts[px]
                ramp == RampColor(count, RampOf(mandel))
            IN  IF count >= F64OfInt(mandel.max_iterations)
                THEN PixelBytes(px) = <<0, 0, 0, 255>>
                ELSE PixelBytes(px) = <<ramp[3], ramp[2], ramp[1], 255>>

\* C11 witness: a colour pass with colours other than the initial ones wrote
\* a black pixel where the ramp is not black, and a ramp pixel that is not
\* black
C11_Witness ==
    /\ JustDrawn
    /\ call.ran.image
    /\ PickedColors(mandel) # PickedColors(MandelbrotSetNew)
    /\ \E px \in 1..Len(mandel.iteration_counts) :
          /\ mandel.iteration_counts[px] >= F64OfInt(mandel.max_iterations)
          /\ RampColor(mandel.iteration_counts[px], RampOf(mandel)) # <<0, 0, 0>>
          /\ PixelBytes(px) = <<0, 0, 0, 255>>
    /\ \E px \in 1..Len(mandel.iteration_counts) :
          /\ mandel.iteration_counts[px] < F64OfInt(mandel.max_iterations)
          /\ PixelBytes(px) # <<0, 0, 0, 255>>

\* the overlays in the order compute_drawables pushes them
OverlayOrder == <<"point_details", "color_picker", "histogram", "center_target">>
\* the overlay of that kind is due in the current state
OverlayDue(kind) ==
    CASE kind = "point_details" -> mandel.show_point_details # << >>
      [] kind = "color_picker" -> mandel.displayed_param \in {OUT_COLOR_PARAM, ALMOST_IN_COLOR_PARAM}
      [] kind = "histogram" -> mandel.show_histogram
      [] kind = "center_target" -> mandel.drag_translation # Vec(0, 0)

\* C12: the list a compute_drawables call returns holds, in this order, the
\* point-iteration trace iff a point is selected, the colour-picker mesh iff
\* a colour panel is open, the histogram iff show_histogram, the drag
\* crosshair iff drag_translation is non-zero, and last exactly one image
\* with z = -1; no other entry is an image.
C12_DrawOrder ==
    JustDrawn =>
        LET d == call.drawables
            n == Len(d)
            due == SelectSeq(OverlayOrder, OverlayDue)
        IN  /\ n = Len(due) + 1
            /\ \A i \in 1..(n - 1) : d[i].kind = due[i]
            /\ d[n] = [kind |-> "image", z |-> 0 - 1]
            /\ Cardinality({i \in 1..n : d[i].kind = "image"}) = 1

\* C12 witness: a call returned three overlays before the image, the first
\* of them the point-iteration trace
C12_Witness ==
    /\ JustDrawn
    /\ Len(call.drawables) = 4
    /\ call.drawables[1].kind = "point_details"
    /\ call.drawables[4].kind = "image"

\* ------------------------------------------------------------------------
\* Properties of navigation
\* ------------------------------------------------------------------------
\* a mouse move to pos of a drag begun at drag_start leaves alone what the
\* dirty checks read and sets drag_translation to pos - drag_start
DragMoves(pos, drag_start) ==
    LET d == AdjustForMouseDrag(mandel, pos.x, pos.y, drag_start)
    IN  /\ d.box_center = mandel.box_center
        /\ d.box_size = mandel.box_size
        /\ d.max_iterations = mandel.max_iterations
        /\ PickedColors(d) = PickedColors(mandel)
        /\ d.drag_translation = Vec(pos.x - drag_start.x, pos.y - drag_start.y)

\* the frame drawn after that mouse move does not run the iteration pass
DragFrameClean(pos, drag_start) ==
    ~ComputeDrawables(AdjustForMouseDrag(mandel, pos.x, pos.y, drag_start),
                      DrawDest, DrawSize).ran.iterations

\* a left-button release at pos of a drag begun at drag_start adds
\* (drag_start - pos) * box_screen_ratio of the last frame to box_center and
\* zeroes drag_translation
ReleaseCommits(pos, drag_start) ==
    LET r == AdjustForMouseButtonUp(mandel, "Left", pos.x, pos.y, drag_start)
        ratio == mandel.last_view_box.box_screen_ratio
    IN  /\ r.box_center.x =
              FAdd(mandel.box_center.x, FMul(F64OfScreen(drag_start.x - pos.x), ratio))
        /\ r.box_center.y =
              FAdd(mandel.box_center.y, FMul(F64OfScreen(drag_start.y - pos.y), ratio))
        /\ r.drag_translation = Vec(0, 0)

\* C13: a mouse move of a drag leaves box_center unchanged and sets
\* drag_translation to position - drag_start, and the frame drawn after it,
\* following a drawn frame, does not re-run the iteration pass; a
\* left-button release with no colour panel open adds (drag_start - release
\* position) times the ratio of plane units per pixel to box_center and
\* zeroes drag_translation.
C13_DragPan ==
    (panic = "none" /\ pc = "events") =>
        \A pos \in MousePoints, drag_start \in MousePoints :
            /\ DragMoves(pos, drag_start)
            /\ JustDrawn => DragFrameClean(pos, drag_start)
            /\ DisplayedColorPicker(mandel) = << >> => ReleaseCommits(pos, drag_start)

\* m is at the preset selected in the current state: centre on the
\* preset's coordinates, default span on both axes, default depth
AtSelectedPreset(m) ==
    /\ m.box_center = REMARKABLE_POINTS[mandel.selected_remarkable_point + 1]
    /\ m.box_size = Vec(DEFAULT_BOX_RIGHT_X - DEFAULT_BOX_LEFT_X,
                        DEFAULT_BOX_RIGHT_X - DEFAULT_BOX_LEFT_X)
    /\ m.max_iterations = DEFAULT_MAX_ITERATIONS

\* C14: from every state, the "Aller" button and the R key both set
\* box_center to the coordinates of the selected preset, box_size to the
\* default span on both axes and max_iterations to the default depth 100.
C14_ResetToPreset ==
    (panic = "none" /\ pc = "events") =>
        /\ AtSelectedPreset(UpdateUi(mandel, <<"aller">>))
        /\ AtSelectedPreset(AdjustForKeyUp(mandel, "R"))
        /\ AtSelectedPreset(ResetToRemarkablePoint(mandel))

\* C14 witness: the second preset was selected and jumped to
C14_Witness ==
    /\ panic = "none"
    /\ mandel.selected_remarkable_point = 1
    /\ events >= 2
    /\ AtSelectedPreset(mandel)
    /\ mandel.box_center # MandelbrotSetNew.box_center

\* C14 witness of the prior state: a jump is due from a state that was
\* zoomed, with a depth other than the default
C14_Navigated ==
    /\ panic = "none"
    /\ pc = "events"
    /\ mandel.box_size # MandelbrotSetNew.box_size
    /\ mandel.max_iterations # DEFAULT_MAX_ITERATIONS

\* ------------------------------------------------------------------------
\* Properties of the ViewBox
\* ------------------------------------------------------------------------
\* C15: no ViewBox is ever constructed with a screen width of zero: the
\* ViewBox MandelbrotSet::new records and the one every compute_drawables
\* call builds and records (last_view_box) have a width of at least one
\* pixel, and the quotient box_size.x / screen_size.x was not taken with a
\* zero divisor (0 / 0 is NaN, x / 0 is infinite).
C15_ZeroWidthGuarded ==
    /\ mandel.last_view_box.screen_size_i.x >= 1
    /\ IsFin(mandel.last_view_box.box_screen_ratio)

\* pixel i (0-based) of the ViewBox of the next frame is recovered by the
\* round trip: screen_pixel(mandel_point_from_index(i)), rounded to the
\* nearest integer, is (screen_min.x + i mod width, screen_min.y + i div
\* width)
RoundTrips(vb, i) ==
    LET back == ScreenPixel(vb, MandelPointFromIndex(vb, i))
    IN  /\ IsFin(back.x) /\ IsFin(back.y)
        /\ RoundDiv(back.x, Scale) = vb.screen_min_i.x + (i % vb.screen_size_i.x)
        /\ RoundDiv(back.y, Scale) = vb.screen_min_i.y + (i \div vb.screen_size_i.x)

Norm2(p) == FAdd(FMul(p.x, p.x), FMul(p.y, p.y))

\* the shortcut test as iter_to_divergence calls it, with y2 = c.y * c.y
ShortcutMember(c) ==
    IsFin(c.x) /\ IsFin(c.y) /\ IsPartOfBulbOrMainCardioid(c, MulFin(c.y, c.y))

\* the sampled point c = (a/32, b/32) is inside the period-2 bulb or the
\* main cardioid in exact arithmetic: the tests of
\* is_part_of_bulb_or_main_cardioid over the integers, in units of 2^-20,
\* hold with more than `margin` to spare
InsideBy(c, margin) ==
    /\ IsFin(c.x) /\ IsFin(c.y)
    /\ LET a == c.x \div (Scale \div 32)
           b == c.y \div (Scale \div 32)
           n == (a - 8) * (a - 8) + b * b
       IN  \/ 1024 * ((a + 32) * (a + 32) + b * b) + margin < 1024 * 64
           \/ n * (n + 32 * (a - 8)) + margin < 256 * b * b

\* the brute-force iteration of the traced sample ran to its full depth
\* without the orbit reaching the escape radius
NonEscaping ==
    /\ Len(sample.points) = sample.max_iterations + 1
    /\ FLt(Norm2(sample.points[Len(sample.points)]), mandel.escape_radius2)

\* the sample was traced by iteration_points to the deepest dwell
TracedDeep == sample.points # << >> /\ sample.max_iterations = MaxDwell

C17_InsideMissed ==
    TracedDeep /\ InsideBy(sample.c, 0) /\ ~ShortcutMember(sample.c) /\ NonEscaping

\* the loop bodies iter_to_divergence entered before it returned: the
\* return from the cycle detection leaves the body before i is increased
LoopSteps(max_iterations, escape_radius2, c) ==
    IF ~(IsFin(c.x) /\ IsFin(c.y)) \/ IsKnownMember(c) \/ ShortcutMember(c)
    THEN 0
    ELSE LET s == IterLoop(max_iterations, escape_radius2, c)
         IN  IF s.result = << >> THEN max_iterations + 1
             ELSE IF s.i < max_iterations /\ s.result[1].iterations = max_iterations
                  THEN s.i + 1
                  ELSE s.i

\* the orbit of c reaches the escape radius at step k and not before: the
\* brute-force iteration of depth k stops on its k-th point at or beyond it
EscapesAt(escape_radius2, c, k) ==
    LET pts == IterationPoints(k, escape_radius2, c)
    IN  /\ Len(pts) = k + 1
        /\ Norm2(pts[k + 1]) # NaN
        /\ Norm2(pts[k + 1]) >= escape_radius2

\* C20: for every c and max_iterations >= 0, iter_to_divergence returns
\* after at most max_iterations loop steps, with iterations <= max_iterations
\* and computed <= max_iterations; it returns iterations < max_iterations
\* only when the orbit reached |z|^2 >= escape_radius^2 at step `iterations`,
\* and then computed == iterations.
C20_IterBounded ==
    sample.result # << >> =>
        LET r == sample.result[1]
        IN  /\ LoopSteps(sample.max_iterations, mandel.escape_radius2, sample.c)
                   <= sample.max_iterations
            /\ r.iterations <= sample.max_iterations
            /\ r.computed <= sample.max_iterations
            /\ r.iterations < sample.max_iterations =>
                   /\ EscapesAt(mandel.escape_radius2, sample.c, r.iterations)
                   /\ r.computed = r.iterations

\* C20 for the finite points alone
C20_IterBoundedFinite ==
    IsFin(sample.c.x) /\ IsFin(sample.c.y) => C20_IterBounded

\* iter_to_divergence returned an escape after at least one loop step
C20_EscapeSeen ==
    /\ sample.result # << >>
    /\ sample.max_iterations = MaxDwell
    /\ sample.result[1].iterations \in 3..(MaxDwell - 1)

\* ------------------------------------------------------------------------
\* Properties of the pixel index
\* ------------------------------------------------------------------------
\* the row-major index of screen pixel (x, y) in the rectangle of vb
RowMajorIndex(vb, x, y) ==
    (x - vb.screen_min_i.x) + (y - vb.screen_min_i.y) * vb.screen_size_i.x

\* C18: for every pixel (x, y) of the rectangle of a ViewBox, whatever its
\* screen_min (screen_min.x different from screen_min.y included),
\* screen_pixel_index(x, y) is (x - screen_min.x) + (y - screen_min.y) * width,
\* the index i for which mandel_point_from_index(i) is mandel_point(x, y).
\* Checked on the ViewBox of the last frame drawn.
C18_PixelIndex ==
    LET vb == mandel.last_view_box
    IN  \A x \in vb.screen_min_i.x..(vb.screen_min_i.x + vb.screen_size_i.x - 1),
           y \in vb.screen_min_i.y..(vb.screen_min_i.y + vb.screen_size_i.y - 1) :
            /\ ScreenPixelIndex(vb, ScreenOfInt(x), ScreenOfInt(y)) = RowMajorIndex(vb, x, y)
            /\ MandelPointFromIndex(vb, RowMajorIndex(vb, x, y)) = MandelPoint(vb, x, y)

\* ------------------------------------------------------------------------
\* Properties of the writes of the parallel iteration pass
\* ------------------------------------------------------------------------
ParPixels == 0..(frame.x * frame.y - 1)

\* C19: during the parallel iteration pass each worker writes only the
\* iteration_counts slot of the pixel it maps, with that pixel's count: no
\* index is written by two workers, every index is written exactly once per
\* pass (once taken, and all of them when the pass ends), and the colour
\* pass reads the counts only after all workers have finished, so it reads
\* the count of every pixel.
C19_DisjointWrites ==
    /\ \A i \in ParPixels :
           /\ Len(pass.writes[i]) = (IF i \in todo THEN 0 ELSE 1)
           /\ \A k \in 1..Len(pass.writes[i]) : pass.writes[i][k].value = ParCount(i)
    /\ pass.read # << >> =>
           /\ todo = {}
           /\ \A i \in ParPixels : Len(pass.writes[i]) = 1 /\ pass.read[i + 1] = ParCount(i)

\* the colour pass has read counts that two different workers wrote
C19_Witness ==
    /\ pass.read # << >>
    /\ \E i \in ParPixels, j \in ParPixels :
           /\ pass.writes[i] # << >> /\ pass.writes[j] # << >>
           /\ pass.writes[i][1].worker # pass.writes[j][1].worker
           /\ pass.read[i + 1] # pass.read[j + 1]

\* ------------------------------------------------------------------------
\* Properties of the exits of iter_to_divergence
\* ------------------------------------------------------------------------
\* the exit iter_to_divergence takes for a finite c: the return of the
\* known-circle test, of the bulb and cardioid test, of the cycle detection
\* (the loop condition still holds on the locals it returns with), of the
\* exhausted budget, or of the escape
ExitKind(max_iterations, escape_radius2, c) ==
    IF IsKnownMember(c) THEN "circle"
    ELSE IF ShortcutMember(c) THEN "bulb"
    ELSE LET s == IterLoop(max_iterations, escape_radius2, c)
         IN  IF s.i < max_iterations /\ (s.x2 + s.y2) < escape_radius2 THEN "cycle"
             ELSE IF s.i >= max_iterations THEN "budget"
             ELSE "escape"

SampleExit == ExitKind(sample.max_iterations, mandel.escape_radius2, sample.c)

\* C21: every early non-escaping exit of iter_to_divergence (known circle,
\* bulb or cardioid, cycle detected) returns iterations = max_iterations,
\* smooth = 0 and computed = 0, and the exhausted iteration budget returns
\* iterations = max_iterations, smooth = 0 and computed = max_iterations.
C21_EarlyExitNoCredit ==
    (sample.result # << >> /\ IsFin(sample.c.x) /\ IsFin(sample.c.y)) =>
        /\ SampleExit \in {"circle", "bulb", "cycle"} =>
               sample.result[1] = IterationResultOf(sample.max_iterations, 0, 0)
        /\ SampleExit = "budget" =>
               sample.result[1] =
                   IterationResultOf(sample.max_iterations, 0, sample.max_iterations)

\* a cycle was detected after at least one checkpoint refresh
C21_Witness ==
    /\ sample.result # << >>
    /\ sample.max_iterations = MaxDwell
    /\ SampleExit = "cycle"
    /\ IterLoop(sample.max_iterations, mandel.escape_radius2, sample.c).i >= 4
    /\ sample.result[1] = IterationResultOf(MaxDwell, 0, 0)

\* the other exits are taken too
C21_CircleSeen == sample.result # << >> /\ sample.max_iterations = MaxDwell /\ SampleExit = "circle"
C21_BulbSeen == sample.result # << >> /\ sample.max_iterations = MaxDwell /\ SampleExit = "bulb"
C21_BudgetSeen ==
    /\ sample.result # << >> /\ sample.max_iterations = MaxDwell /\ SampleExit = "budget"
    /\ sample.result[1].computed = MaxDwell

\* ------------------------------------------------------------------------
\* Properties of the cycle-detection checkpoint
\* ------------------------------------------------------------------------
\* the checkpoint is the point recorded by the last refresh (the origin
\* before the first); the first refresh is made in step 4, when 3 steps
\* have elapsed, and each later one when the max_periodicity then in force
\* has elapsed since the refresh before
CheckpointKept ==
    /\ loop.s.xh = loop.mark.x /\ loop.s.yh = loop.mark.y
    /\ loop.refreshes = 1 => loop.last = 4 /\ loop.period = 3
    /\ loop.refreshes >= 2 => loop.gap = loop.period

\* C22: the cycle-detection checkpoint (xh, yh) is re-recorded each time
\* max_periodicity loop steps have elapsed since the previous refresh
\* (max_periodicity starts at 3), and max_periodicity doubles after every 10
\* checkpoint refreshes, counted from the start of the iteration: the
\* refresh that follows each 10 refreshes (the 11th, the 21st, ...) doubles
\* it, so that after n >= 1 refreshes it is 3 * 2^((n - 1) div 10).
C22_RefreshSchedule ==
    /\ CheckpointKept
    /\ loop.s.max_periodicity = 3 * 2 ^ (Max2(0, loop.refreshes - 1) \div 10)

\* a loop that doubled max_periodicity twice and refreshed the checkpoint
\* 12 steps after the 21st refresh
C22_Witness ==
    /\ loop.refreshes = 22
    /\ loop.s.max_periodicity = 12
    /\ loop.gap = 12

\* ------------------------------------------------------------------------
\* Properties of the Harmonograph
\* ------------------------------------------------------------------------
\* C23: the amplitudes of the two pendulums acting on the same axis always
\* sum to 1.0 (paper-x + pen-x = 1 and paper-y + pen-y = 1), initially and
\* after any sequence of adjust_for_axis and adjust_for_button events.
C23_AmplitudesSumToOne ==
    /\ FEq(FAdd(harmo.curve.pendulums[PAPERX].amp, harmo.curve.pendulums[PENX].amp),
           Dec(1, 1))
    /\ FEq(FAdd(harmo.curve.pendulums[PAPERY].amp, harmo.curve.pendulums[PENY].amp),
           Dec(1, 1))

\* both pairs of amplitudes were set by axis events, to different splits
C23_Witness ==
    /\ harmo.curve.pendulums[PAPERX].amp # Dec(25, 100)
    /\ harmo.curve.pendulums[PAPERY].amp # Dec(25, 100)
    /\ harmo.curve.pendulums[PAPERX].amp # harmo.curve.pendulums[PAPERY].amp
    /\ harmo.curve.pendulums[PENX].amp = Dec(1, 1) - harmo.curve.pendulums[PAPERX].amp

\* ------------------------------------------------------------------------
\* Properties of the De Jong attractor
\* ------------------------------------------------------------------------
DeJongParams(dj) == <<dj.a, dj.b, dj.c, dj.d>>

\* C30: once LeftTrigger or RightTrigger has set pinning_values, an axis event
\* changes none of a, b, c, d; the flag stays set until an axis event at
\* which every recorded axis value has magnitude below 0.01, and that event
\* clears the flag without changing a parameter; an axis event delivered
\* while the flag is clear adjusts the parameter of its axis.
C30_PinningHolds ==
    [][ /\ dejong'.last.op = "button" /\ dejong'.last.btn \in {"LeftTrigger", "RightTrigger"}
           => dejong'.curve.pinning_values
        /\ dejong'.last.op = "axis" /\ dejong.curve.pinning_values
           => /\ DeJongParams(dejong'.curve) = DeJongParams(dejong.curve)
              /\ dejong'.curve.pinning_values =
                     (\E k \in DOMAIN dejong'.curve.values :
                          Abs(dejong'.curve.values[k]) >= Dec(1, 100))
        /\ dejong'.last.op = "axis" /\ ~dejong.curve.pinning_values
           => /\ ~dejong'.curve.pinning_values
              /\ dejong'.curve = AdjustParamForAxis(
                     [dejong.curve EXCEPT !.values = dejong'.curve.values],
                     dejong'.last.axis, dejong'.last.value) ]_vars

\* a trigger, an axis event held back, the axis event that clears the flag
\* with the parameters still those of new(), then an axis event that adjusts
C30_Witness ==
    /\ dejong.log = <<"button", "axis", "axis", "axis">>
    /\ dejong.last.op = "axis"
    /\ ~dejong.curve.pinning_values
    /\ dejong.curve.a # Dec(14, 10)
    /\ DOMAIN dejong.curve.values = {"LeftStickX", "LeftStickY"}
    /\ Abs(dejong.curve.values["LeftStickY"]) < EPSILON
    /\ <<dejong.curve.b, dejong.curve.c, dejong.curve.d>>
           = <<0 - Dec(23, 10), Dec(24, 10), 0 - Dec(21, 10)>>

\* ------------------------------------------------------------------------
\* Properties of the inspected point
\* ------------------------------------------------------------------------
\* C25: whenever show_point_details is Some(PointDetail(_, idx)), idx is
\* below iteration_counts.len(), so that the lookup iteration_counts[idx] of
\* update_ui stays inside the buffer, after any right clicks, resizes,
\* zooms, drags and resets, a right click before the first frame included.
C25_PointIndexInBounds ==
    mandel.show_point_details # << >>
        => mandel.show_point_details[1].index < Len(mandel.iteration_counts)

\* ------------------------------------------------------------------------
\* Properties of the cached image
\* ------------------------------------------------------------------------
\* C26: the cached image is present whenever compute_drawables unwraps it:
\* the first call finds the image out of date and builds it, and no
\* operation sets img back to None, so that every call that reaches
\* self.img.as_ref().unwrap() finds Some(image) and returns the image as the
\* last drawable.
C26_ImagePresent ==
    /\ drawn # << >> => mandel.img # << >>
    /\ drawn = << >> => mandel.img = << >> /\ NeedRecomputeImage(mandel, DrawViewBox)
    /\ call.op = "compute_drawables" /\ panic = "none"
           => /\ call.drawables # << >>
              /\ call.drawables[Len(call.drawables)].kind = "image"

\* a call that left the image alone and unwrapped the one an earlier call
\* built, after input events
C26_Witness ==
    /\ call.op = "compute_drawables"
    /\ panic = "none"
    /\ ~call.ran.image
    /\ events >= 1
    /\ mandel.img # << >>

\* ------------------------------------------------------------------------
\* Properties of the dwell
\* ------------------------------------------------------------------------
\* C27: max_iterations is at least 1 in every reachable state, after any
\* presses of the dwell buttons "-" (halve) and "+" (double) and any resets,
\* so that a halving can always be undone by a doubling.
C27_DwellPositive == mandel.max_iterations >= 1

\* ------------------------------------------------------------------------
\* Properties of the colour picker
\* ------------------------------------------------------------------------
\* C28: the hue of a ColorPicker stays inside [0, 360) after any sequence of
\* adjust_for_click, adjust_for_axis, adjust_for_key and adjust_for_button,
\* for clicks anywhere on or inside the colour-space rectangle, its edges
\* included, so that ColorPicker::color never reaches the panic of HSV::rgb.
C28_HueInRange ==
    /\ ~colorpick.panic
    /\ ~FLt(colorpick.p.current_pick.hue, 0)
    /\ colorpick.p.current_pick.hue # NaN
    /\ FLt(colorpick.p.current_pick.hue, Dec(360, 1))

\* ------------------------------------------------------------------------
\* Properties of the mouse release while a picker is open
\* ------------------------------------------------------------------------
\* this step is a mouse_button_up_event delivered while a colour picker is
\* displayed
ReleaseOnPicker ==
    /\ call'.op = "adjust_for_mouse_button_up"
    /\ events' = events + 1
    /\ DisplayedColorPicker(mandel) # << >>

\* C29: while a colour-picker panel is open, a mouse-button-up of any button
\* goes to that picker only: it changes neither box_center nor box_size, it
\* does not set (or clear) show_point_details, it leaves the other picker
\* and the displayed parameter alone, and it still resets drag_translation
\* to zero.
C29_ReleaseGoesToPicker ==
    [][ ReleaseOnPicker =>
          /\ mandel'.box_center = mandel.box_center
          /\ mandel'.box_size = mandel.box_size
          /\ mandel'.show_point_details = mandel.show_point_details
          /\ mandel'.drag_translation = Vec(0, 0)
          /\ mandel'.displayed_param = mandel.displayed_param
          /\ \A field \in DOMAIN mandel \ {"drag_translation", "out_color_picker",
                                             "almost_in_color_picker"} :
                 mandel'[field] = mandel[field]
          /\ \A field \in {"out_color_picker", "almost_in_color_picker"} :
                 <<field>> # DisplayedColorPicker(mandel)
                     => mandel'[field] = mandel[field] ]_vars

\* a release has just been handed to the open picker of a view that was
\* drawn, with a point under inspection left as it was
C29_Witness ==
    /\ call.op = "adjust_for_mouse_button_up"
    /\ DisplayedColorPicker(mandel) # << >>
    /\ drawn # << >>
    /\ mandel.show_point_details # << >>
    /\ mandel.drag_translation = Vec(0, 0)

====
